---------------------------- MODULE Spec2Model ----------------------------
(***************************************************************************)
(* A model of scripts/blender-autorig.py: the headless auto-rig pipeline   *)
(* (measure the mesh, build and fit the armature, skin every mesh by bone  *)
(* heat or by distance weights, cap the influences, export).               *)
(*                                                                         *)
(* Numbers.  Python floats are modelled in fixed point:                    *)
(*   - a coordinate is an integer count of 0.001 world units;              *)
(*   - a fraction (height fraction, gate, scale, normalised coordinate)    *)
(*     is an integer count of thousandths;                                 *)
(*   - a raw distance weight is an integer count of millionths;            *)
(*   - a stored vertex weight is the exact rational n/den, the vertex      *)
(*     carrying one denominator for all its groups (every code path that   *)
(*     writes a vertex divides by one total).                              *)
(* Divisions truncate toward zero, which is sign-symmetric like IEEE       *)
(* rounding.  A value below the resolution is stored as 0, as a Blender    *)
(* vertex weight (a float32) underflows.                                   *)
(***************************************************************************)
EXTENDS Integers, Sequences, FiniteSets, TLC

\* ------------------------------------------------------------------------
\* Arithmetic helpers
\* ------------------------------------------------------------------------
Max(a, b) == IF a >= b THEN a ELSE b

Min(a, b) == IF a <= b THEN a ELSE b

Abs(a) == IF a >= 0 THEN a ELSE -a

\* Division truncating toward zero (b > 0).
TDiv(a, b) == IF a >= 0 THEN a \div b ELSE -((-a) \div b)

RECURSIVE SqrtSearch(_, _, _)
SqrtSearch(n, lo, hi) ==
    IF lo >= hi THEN lo
    ELSE LET mid == (lo + hi + 1) \div 2
         IN  IF mid * mid <= n THEN SqrtSearch(n, mid, hi)
             ELSE SqrtSearch(n, lo, mid - 1)

\* floor(sqrt(n)) for 0 <= n < 2^30.
ISqrt(n) == SqrtSearch(n, 0, 32767)

RECURSIVE SumSeq(_)
SumSeq(s) == IF s = <<>> THEN 0 ELSE Head(s) + SumSeq(Tail(s))

\* ------------------------------------------------------------------------
\* Vectors (mathutils.Vector): <<x, y, z>>
\* ------------------------------------------------------------------------
VAdd(a, b) == <<a[1] + b[1], a[2] + b[2], a[3] + b[3]>>

VSub(a, b) == <<a[1] - b[1], a[2] - b[2], a[3] - b[3]>>

VDot(a, b) == a[1] * b[1] + a[2] * b[2] + a[3] * b[3]

VLenSq(a) == VDot(a, a)

\* v * (num/den), each component truncated.
VScale(v, num, den) ==
    <<TDiv(v[1] * num, den), TDiv(v[2] * num, den), TDiv(v[3] * num, den)>>

\* ------------------------------------------------------------------------
\* Bone names
\* ------------------------------------------------------------------------
LEFT_ARM_BONES ==
    {"mixamorig:LeftShoulder", "mixamorig:LeftArm",
     "mixamorig:LeftForeArm", "mixamorig:LeftHand"}

RIGHT_ARM_BONES ==
    {"mixamorig:RightShoulder", "mixamorig:RightArm",
     "mixamorig:RightForeArm", "mixamorig:RightHand"}

LEFT_LEG_BONES ==
    {"mixamorig:LeftUpLeg", "mixamorig:LeftLeg",
     "mixamorig:LeftFoot", "mixamorig:LeftToeBase"}

RIGHT_LEG_BONES ==
    {"mixamorig:RightUpLeg", "mixamorig:RightLeg",
     "mixamorig:RightFoot", "mixamorig:RightToeBase"}

HEAD_BONES == {"mixamorig:Neck", "mixamorig:Head", "mixamorig:HeadTop_End"}

TORSO_BONES ==
    {"mixamorig:Hips", "mixamorig:Spine", "mixamorig:Spine1", "mixamorig:Spine2"}

PRIMARY_WEIGHT_BONES ==
    LEFT_ARM_BONES \cup RIGHT_ARM_BONES \cup LEFT_LEG_BONES \cup RIGHT_LEG_BONES
        \cup TORSO_BONES \cup HEAD_BONES

\* ------------------------------------------------------------------------
\* Defaults of the configuration surface (thousandths unless said otherwise)
\* ------------------------------------------------------------------------
hips_h_default == 480
spine_h_default == 520
spine1_h_default == 580
spine2_h == 640
neck_h_default == 720
head_h == 780
head_top_h == 950
head_end_h == 1000
shoulder_h_default == 720
shoulder_inner == 20
shoulder_outer_default == 80
upper_arm_end == 200
forearm_end == 320
hand_end == 370
leg_x_default == 60
upper_leg_h == 270
lower_leg_h == 60
foot_forward == 60
foot_h == 20
toe_forward == 100
toe_h == 0

\* model_height < 0.01 aborts the run: 0.01 world units, in coordinate units.
MIN_MODEL_HEIGHT == 10

\* analyze_mesh_silhouette returns None below this height (0.01).
MIN_SILHOUETTE_HEIGHT == 10

\* num_bands of analyze_mesh_silhouette.
num_bands == 100

VARIABLES
    pc,              \* position in the script
    config,          \* the parsed settings table (config.json)
    template_asset,  \* what the template path holds (the imported file)
    meshes,          \* per mesh object: its vertices, [co, loose]
    H, CX, CY, BZ,   \* model_height, model_center_x/y, model_bottom_z
    armature_obj,    \* [bones, loc]: bones in armature space, object location
    anat,            \* the anatomy globals calibrate_..._from_armature rewrites
    mesh_landmarks,  \* result of analyze_mesh_silhouette (valid = FALSE: None)
    bone_positions,  \* bone name -> world head/tail, built once before skinning
    mesh_idx,        \* index of the mesh the skinning loop is at
    vertex_groups,   \* per mesh: names of its vertex groups, in index order
    weights,         \* per mesh, per vertex: [den, g] with g a list of [b, n]
    method_used,     \* per mesh: the method the loop reports
    exit_code,       \* process exit status (-1 while running)
    steps,           \* history: the calls made so far, [op, mesh]
    fitted_armature, \* history: the armature as fit_armature_to_model left it
    scene_armatures  \* how many armature objects the scene holds

vars ==
    <<pc, config, template_asset, meshes, H, CX, CY, BZ,
      armature_obj, anat, mesh_landmarks, bone_positions, mesh_idx,
      vertex_groups, weights, method_used, exit_code, steps, fitted_armature,
      scene_armatures>>

\* ------------------------------------------------------------------------
\* Armature construction
\* ------------------------------------------------------------------------
Bone(name, head, tail, parent) ==
    [name |-> name, head |-> head, tail |-> tail, parent |-> parent]

\* pos(x_off, y_off, height_frac) for a model of height h centred at
\* (cx, cy) with its lowest point at bz.
pos(h, cx, cy, bz, x_off, y_off, height_frac) ==
    <<cx + TDiv(x_off * h, 1000), cy + TDiv(y_off * h, 1000),
      bz + TDiv(height_frac * h, 1000)>>

\* The values the anatomy globals hold after the settings are read.
anatomy_defaults ==
    [hips_h |-> hips_h_default, spine_h |-> spine_h_default,
     spine1_h |-> spine1_h_default, neck_h |-> neck_h_default,
     shoulder_h |-> shoulder_h_default, shoulder_outer |-> shoulder_outer_default,
     leg_x |-> leg_x_default]

bone_defs(h, cx, cy, bz, a) ==
    LET P(x, y, z) == pos(h, cx, cy, bz, x, y, z)
        hips == a.hips_h
        spine == a.spine_h
        spine1 == a.spine1_h
        neck == a.neck_h
        sh == a.shoulder_h
        so == a.shoulder_outer
        lx == a.leg_x
    IN <<
      Bone("mixamorig:Hips", P(0, 0, hips), P(0, 0, spine), "none"),
      Bone("mixamorig:Spine", P(0, 0, spine), P(0, 0, spine1), "mixamorig:Hips"),
      Bone("mixamorig:Spine1", P(0, 0, spine1), P(0, 0, spine2_h), "mixamorig:Spine"),
      Bone("mixamorig:Spine2", P(0, 0, spine2_h), P(0, 0, neck), "mixamorig:Spine1"),
      Bone("mixamorig:Neck", P(0, 0, neck), P(0, 0, head_h), "mixamorig:Spine2"),
      Bone("mixamorig:Head", P(0, 0, head_h), P(0, 0, head_top_h), "mixamorig:Neck"),
      Bone("mixamorig:HeadTop_End", P(0, 0, head_top_h), P(0, 0, head_end_h),
           "mixamorig:Head"),
      Bone("mixamorig:LeftShoulder", P(shoulder_inner, 0, sh), P(so, 0, sh),
           "mixamorig:Spine2"),
      Bone("mixamorig:LeftArm", P(so, 0, sh), P(upper_arm_end, 0, sh),
           "mixamorig:LeftShoulder"),
      Bone("mixamorig:LeftForeArm", P(upper_arm_end, 0, sh), P(forearm_end, 0, sh),
           "mixamorig:LeftArm"),
      Bone("mixamorig:LeftHand", P(forearm_end, 0, sh), P(hand_end, 0, sh),
           "mixamorig:LeftForeArm"),
      Bone("mixamorig:RightShoulder", P(-shoulder_inner, 0, sh), P(-so, 0, sh),
           "mixamorig:Spine2"),
      Bone("mixamorig:RightArm", P(-so, 0, sh), P(-upper_arm_end, 0, sh),
           "mixamorig:RightShoulder"),
      Bone("mixamorig:RightForeArm", P(-upper_arm_end, 0, sh), P(-forearm_end, 0, sh),
           "mixamorig:RightArm"),
      Bone("mixamorig:RightHand", P(-forearm_end, 0, sh), P(-hand_end, 0, sh),
           "mixamorig:RightForeArm"),
      Bone("mixamorig:LeftUpLeg", P(lx, 0, hips), P(lx, 0, upper_leg_h),
           "mixamorig:Hips"),
      Bone("mixamorig:LeftLeg", P(lx, 0, upper_leg_h), P(lx, 0, lower_leg_h),
           "mixamorig:LeftUpLeg"),
      Bone("mixamorig:LeftFoot", P(lx, 0, lower_leg_h), P(lx, foot_forward, foot_h),
           "mixamorig:LeftLeg"),
      Bone("mixamorig:LeftToeBase", P(lx, foot_forward, foot_h), P(lx, toe_forward, toe_h),
           "mixamorig:LeftFoot"),
      Bone("mixamorig:RightUpLeg", P(-lx, 0, hips), P(-lx, 0, upper_leg_h),
           "mixamorig:Hips"),
      Bone("mixamorig:RightLeg", P(-lx, 0, upper_leg_h), P(-lx, 0, lower_leg_h),
           "mixamorig:RightUpLeg"),
      Bone("mixamorig:RightFoot", P(-lx, 0, lower_leg_h), P(-lx, foot_forward, foot_h),
           "mixamorig:RightLeg"),
      Bone("mixamorig:RightToeBase", P(-lx, foot_forward, foot_h),
           P(-lx, toe_forward, toe_h), "mixamorig:RightFoot")
    >>

NoArmature == [bones |-> <<>>, loc |-> <<0, 0, 0>>]

create_synthetic_armature ==
    [bones |-> bone_defs(H, CX, CY, BZ, anat), loc |-> <<0, 0, 0>>]

BoneNames(arm) == {arm.bones[i].name : i \in DOMAIN arm.bones}

HasBone(arm, name) == name \in BoneNames(arm)

\* arm_obj.data.bones.get(name)
GetBone(arm, name) ==
    arm.bones[CHOOSE i \in DOMAIN arm.bones : arm.bones[i].name = name]

\* matrix_world @ local: after construction or import the object carries a
\* location only.
WorldHead(arm, b) == VAdd(arm.loc, b.head)

WorldTail(arm, b) == VAdd(arm.loc, b.tail)

\* ------------------------------------------------------------------------
\* fit_armature_to_model
\* ------------------------------------------------------------------------
MinOf(S) == CHOOSE x \in S : \A y \in S : x <= y

MaxOf(S) == CHOOSE x \in S : \A y \in S : x >= y

\* World-space end points of every bone.
EndPoints(arm) ==
    {WorldHead(arm, arm.bones[i]) : i \in DOMAIN arm.bones}
        \cup {WorldTail(arm, arm.bones[i]) : i \in DOMAIN arm.bones}

\* compute_armature_bounds: [lo, hi] per axis (a skeleton has a bone).
compute_armature_bounds(arm) ==
    [lo |-> [k \in 1..3 |-> MinOf({p[k] : p \in EndPoints(arm)})],
     hi |-> [k \in 1..3 |-> MaxOf({p[k] : p \in EndPoints(arm)})]]

\* scale = H / max(rig_height, 1e-6) as a fraction num/den; 1e-6 world
\* units are 1/1000 of a coordinate unit.
FitScale(arm) ==
    LET b == compute_armature_bounds(arm)
        rig_height == b.hi[3] - b.lo[3]
    IN  IF rig_height > 0 THEN [num |-> H, den |-> rig_height]
        ELSE [num |-> H * 1000, den |-> 1]

\* arm_obj.scale = scale; location += centre/bottom offset; transform_apply
\* bakes the scale into the bones and keeps the location.
fit_armature_to_model(arm) ==
    LET sc == FitScale(arm)
        scaled == [bones |-> [i \in DOMAIN arm.bones |->
                      [arm.bones[i] EXCEPT
                          !.head = VScale(@, sc.num, sc.den),
                          !.tail = VScale(@, sc.num, sc.den)]],
                   loc |-> arm.loc]
        b == compute_armature_bounds(scaled)
        cx == TDiv(b.lo[1] + b.hi[1], 2)
        cy == TDiv(b.lo[2] + b.hi[2], 2)
    IN  [scaled EXCEPT !.loc = VAdd(@, <<CX - cx, CY - cy, BZ - b.lo[3]>>)]

\* ------------------------------------------------------------------------
\* analyze_mesh_silhouette
\* ------------------------------------------------------------------------
RECURSIVE Flatten(_)
Flatten(ss) == IF ss = <<>> THEN <<>> ELSE Head(ss) \o Flatten(Tail(ss))

\* World positions of every vertex of every mesh object.
AllVerts(ms) ==
    LET all == Flatten(ms) IN [i \in DOMAIN all |-> all[i].co]

NoLandmarks ==
    [valid |-> FALSE, arm_tip_left_x |-> 0, arm_tip_right_x |-> 0,
     arm_band_idx |-> 0, arm_height_z |-> 0, arm_height_frac |-> 0,
     hip_left_x |-> 0, hip_right_x |-> 0, hip_half_width |-> 0,
     shoulder_junction_z |-> 0, mesh_center_x |-> 0]

\* idx = clamp(int((z - z_min) / band_h), 0, num_bands - 1), band_h =
\* height / num_bands.
BandIndex(z, z_min, height) ==
    Max(0, Min(((z - z_min) * num_bands) \div height, num_bands - 1))

\* bands[i]: None (count 0) or [x_min, x_max, y_min, y_max, count].
BandOf(verts, z_min, height, i) ==
    LET members == {k \in DOMAIN verts : BandIndex(verts[k][3], z_min, height) = i}
    IN  IF members = {} THEN [count |-> 0, x0 |-> 0, x1 |-> 0, y0 |-> 0, y1 |-> 0]
        ELSE [count |-> Cardinality(members),
              x0 |-> MinOf({verts[k][1] : k \in members}),
              x1 |-> MaxOf({verts[k][1] : k \in members}),
              y0 |-> MinOf({verts[k][2] : k \in members}),
              y1 |-> MaxOf({verts[k][2] : k \in members})]

\* Tuple order of (width, index, x_min, x_max): the indices differ, so
\* width then index decide.
EntryBefore(e, f) == e.w > f.w \/ (e.w = f.w /\ e.i > f.i)

\* width_entries.sort(reverse=True)[:n]
RECURSIVE TopEntries(_, _)
TopEntries(E, n) ==
    IF n = 0 \/ E = {} THEN <<>>
    ELSE LET first == CHOOSE e \in E : \A f \in E \ {e} : EntryBefore(e, f)
         IN  <<first>> \o TopEntries(E \ {first}, n - 1)

\* The members of a set of integers in ascending order.
Ranked(S) ==
    [k \in 1..Cardinality(S) |->
        CHOOSE i \in S : Cardinality({j \in S : j < i}) = k - 1]

\* sorted(S) of a bag of integers given as a sequence.
RECURSIVE SortAsc(_)
SortAsc(s) ==
    IF s = <<>> THEN <<>>
    ELSE LET k == CHOOSE i \in DOMAIN s : \A j \in DOMAIN s : s[i] <= s[j]
         IN  <<s[k]>> \o SortAsc([j \in 1..(Len(s) - 1) |-> IF j < k THEN s[j] ELSE s[j + 1]])

\* The first band at or below `from`, above `stop`, that holds a vertex and
\* is narrower than 1.5 x the median torso width; -1 when there is none.
RECURSIVE ShoulderScan(_, _, _, _)
ShoulderScan(band, from, stop, median) ==
    IF from <= stop THEN -1
    ELSE IF band[from].count > 0 /\ 2 * (band[from].x1 - band[from].x0) < 3 * median
         THEN from
         ELSE ShoulderScan(band, from - 1, stop, median)

\* The landmarks read off the bands (lines 336-399).
BandLandmarks(band, z_min, height) ==
    LET arm_lo == (num_bands * 50) \div 100
        arm_hi == (num_bands * 95) \div 100
        width_entries ==
            {[w |-> band[i].x1 - band[i].x0, i |-> i, x0 |-> band[i].x0, x1 |-> band[i].x1] :
                i \in {j \in arm_lo..(arm_hi - 1) : band[j].count >= 3}}
        top_n == Min(5, Cardinality(width_entries))
    IN
    IF top_n = 0 THEN NoLandmarks
    ELSE
    LET top == TopEntries(width_entries, top_n)
        arm_x_min == TDiv(SumSeq([k \in 1..top_n |-> top[k].x0]), top_n)
        arm_x_max == TDiv(SumSeq([k \in 1..top_n |-> top[k].x1]), top_n)
        arm_band_idx == top[1].i
        BandZ(i) == z_min + TDiv((2 * i + 1) * height, 2 * num_bands)
        hip_lo == (num_bands * 44) \div 100
        hip_hi == (num_bands * 52) \div 100
        hip_bands == Ranked({i \in hip_lo..(Min(hip_hi + 1, num_bands) - 1) :
                                 band[i].count > 0})
        hip_left_x ==
            IF hip_bands = <<>> THEN 0
            ELSE TDiv(SumSeq([k \in DOMAIN hip_bands |-> band[hip_bands[k]].x0]),
                      Len(hip_bands))
        hip_right_x ==
            IF hip_bands = <<>> THEN 0
            ELSE TDiv(SumSeq([k \in DOMAIN hip_bands |-> band[hip_bands[k]].x1]),
                      Len(hip_bands))
        torso_bands ==
            Ranked({i \in ((num_bands * 55) \div 100)..(((num_bands * 70) \div 100) - 1) :
                        band[i].count > 0})
        torso_widths ==
            SortAsc([k \in DOMAIN torso_bands |->
                        band[torso_bands[k]].x1 - band[torso_bands[k]].x0])
        median_torso_w ==
            IF torso_widths = <<>> THEN 0
            ELSE torso_widths[(Len(torso_widths) \div 2) + 1]
        found == ShoulderScan(band, arm_band_idx, (num_bands * 55) \div 100, median_torso_w)
        shoulder_z == IF found = -1 THEN BandZ(arm_band_idx) ELSE BandZ(found)
    IN  [valid |-> TRUE,
         arm_tip_left_x |-> arm_x_min,
         arm_tip_right_x |-> arm_x_max,
         arm_band_idx |-> arm_band_idx,
         arm_height_z |-> BandZ(arm_band_idx),
         arm_height_frac |-> TDiv((BandZ(arm_band_idx) - z_min) * 1000, height),
         hip_left_x |-> hip_left_x,
         hip_right_x |-> hip_right_x,
         hip_half_width |-> TDiv(hip_right_x - hip_left_x, 2),
         shoulder_junction_z |-> shoulder_z,
         mesh_center_x |-> TDiv(arm_x_min + arm_x_max, 2)]

\* The bands of the vertices between z_min and z_max (lines 309-334).
SpanLandmarks(all_verts, z_min, z_max) ==
    IF z_max - z_min < MIN_SILHOUETTE_HEIGHT THEN NoLandmarks
    ELSE BandLandmarks([i \in 0..(num_bands - 1) |->
                           BandOf(all_verts, z_min, z_max - z_min, i)],
                       z_min, z_max - z_min)

VertLandmarks(all_verts) ==
    IF all_verts = <<>> THEN NoLandmarks
    ELSE SpanLandmarks(all_verts,
                       MinOf({all_verts[k][3] : k \in DOMAIN all_verts}),
                       MaxOf({all_verts[k][3] : k \in DOMAIN all_verts}))

analyze_mesh_silhouette(ms) == VertLandmarks(AllVerts(ms))

\* compute-mixamo-markers.py slices the same vertex cloud into 200 bands.
markers_num_bands == 200

\* idx = int((v.z - z_min) / band_h) with band_h = height / num_bands and no
\* check of the height before it: the float division raises
\* ZeroDivisionError when band_h is 0.0. Then the clamp to 0..num_bands - 1.
MarkerBandIndex(z, z_min, height) ==
    IF height = 0 THEN [raised |-> TRUE, idx |-> 0]
    ELSE [raised |-> FALSE,
          idx |-> Max(0, Min(((z - z_min) * markers_num_bands) \div height,
                             markers_num_bands - 1))]

\* The bounding box and the band loop of the marker script: the count of
\* vertices per band, or the exception of the first vertex.
MarkerBandSlicing(all_verts) ==
    LET z_min == MinOf({all_verts[k][3] : k \in DOMAIN all_verts})
        z_max == MaxOf({all_verts[k][3] : k \in DOMAIN all_verts})
        height == z_max - z_min
        at(k) == MarkerBandIndex(all_verts[k][3], z_min, height)
    IN  IF \E k \in DOMAIN all_verts : at(k).raised
        THEN [raised |-> TRUE, count |-> [i \in 0..(markers_num_bands - 1) |-> 0]]
        ELSE [raised |-> FALSE,
              count |-> [i \in 0..(markers_num_bands - 1) |->
                            Cardinality({k \in DOMAIN all_verts : at(k).idx = i})]]

\* ------------------------------------------------------------------------
\* adjust_armature_proportions
\* ------------------------------------------------------------------------
\* Names that start with `prefix` and are not `prefix` itself, among the
\* names the templates of this model use.
FINGER_BONES ==
    [left |-> {"mixamorig:LeftHandIndex1"}, right |-> {"mixamorig:RightHandIndex1"}]

ARM_CHAIN == LEFT_ARM_BONES \cup RIGHT_ARM_BONES \cup FINGER_BONES.left \cup FINGER_BONES.right

LEG_CHAIN == LEFT_LEG_BONES \cup RIGHT_LEG_BONES

\* A rescaling of X and Z alike.
ScaleBoneXZ(arm, b, pivot_x, scale_factor) ==
    LET hw == WorldHead(arm, b)
        tw == WorldTail(arm, b)
        new_hx == pivot_x + TDiv((hw[1] - pivot_x) * scale_factor, 1000)
        new_tx == pivot_x + TDiv((tw[1] - pivot_x) * scale_factor, 1000)
    IN  [b EXCEPT !.head = VSub(<<new_hx, hw[2], TDiv(hw[3] * scale_factor, 1000)>>, arm.loc),
                  !.tail = VSub(<<new_tx, tw[2], TDiv(tw[3] * scale_factor, 1000)>>, arm.loc)]

\* scale_bone_x: the world X of head and tail rescaled about pivot_x.
scale_bone_x(arm, b, pivot_x, scale_factor) ==
    LET hw == WorldHead(arm, b)
        tw == WorldTail(arm, b)
        new_hx == pivot_x + TDiv((hw[1] - pivot_x) * scale_factor, 1000)
        new_tx == pivot_x + TDiv((tw[1] - pivot_x) * scale_factor, 1000)
    IN  [b EXCEPT !.head = VSub(<<new_hx, hw[2], hw[3]>>, arm.loc),
                  !.tail = VSub(<<new_tx, tw[2], tw[3]>>, arm.loc)]

\* A scale used as computed.
Unclamped(v, lo, hi) == v

\* max(lo, min(v, hi))
Clamp(v, lo, hi) == Max(lo, Min(v, hi))

\* An extent that keeps its sign.
SignedExtent(x, center) == x - center

\* abs(x - center): the extent of a hand tip or an arm tip from the centre.
extent_from(x, center) == Abs(x - center)

\* arm_scale and hip_scale as the function computes them (thousandths), and
\* whether it goes on to move bones.
proportion_scales(arm, landmarks) ==
    LET spine_cx == WorldHead(arm, GetBone(arm, "mixamorig:Spine2"))[1]
        mesh_cx == landmarks.mesh_center_x
        left_hand_tail == WorldTail(arm, GetBone(arm, "mixamorig:LeftHand"))
        right_hand_tail == WorldTail(arm, GetBone(arm, "mixamorig:RightHand"))
        skel_left_extent == extent_from(left_hand_tail[1], spine_cx)
        skel_right_extent == extent_from(right_hand_tail[1], spine_cx)
        mesh_left_extent == extent_from(landmarks.arm_tip_left_x, mesh_cx)
        mesh_right_extent == extent_from(landmarks.arm_tip_right_x, mesh_cx)
        left_arm_s == TDiv(mesh_left_extent * 1000, Max(skel_left_extent, 1))
        right_arm_s == TDiv(mesh_right_extent * 1000, Max(skel_right_extent, 1))
        arm_scale == Clamp(TDiv(left_arm_s + right_arm_s, 2), 300, 5000)
        have_legs == HasBone(arm, "mixamorig:LeftUpLeg") /\ HasBone(arm, "mixamorig:RightUpLeg")
        skel_hip_half ==
            Abs(WorldHead(arm, GetBone(arm, "mixamorig:LeftUpLeg"))[1] - spine_cx)
        mesh_hip_half == landmarks.hip_half_width
        hip_scale ==
            IF have_legs /\ skel_hip_half > 1 /\ mesh_hip_half > 1
            THEN Clamp(TDiv(mesh_hip_half * 1000, skel_hip_half), 300, 5000)
            ELSE 1000
    IN  [spine_cx |-> spine_cx, left_arm_s |-> left_arm_s, right_arm_s |-> right_arm_s,
         arm_scale |-> arm_scale, hip_scale |-> hip_scale,
         skip |-> Abs(arm_scale - 1000) < 20 /\ Abs(hip_scale - 1000) < 20]

\* The adjustment without its early return on landmarks of None.
AdjustWithoutLandmarkCheck(arm, landmarks) ==
    LET ps == proportion_scales(arm, landmarks) IN
    IF ps.skip THEN arm
    ELSE [arm EXCEPT !.bones = [i \in DOMAIN arm.bones |->
            IF arm.bones[i].name \in ARM_CHAIN
            THEN scale_bone_x(arm, arm.bones[i], ps.spine_cx, ps.arm_scale)
            ELSE IF arm.bones[i].name \in LEG_CHAIN
            THEN scale_bone_x(arm, arm.bones[i], ps.spine_cx, ps.hip_scale)
            ELSE arm.bones[i]]]

adjust_armature_proportions(arm, landmarks) ==
    IF ~landmarks.valid THEN arm
    ELSE IF ~(HasBone(arm, "mixamorig:Spine2") /\ HasBone(arm, "mixamorig:LeftHand")
              /\ HasBone(arm, "mixamorig:RightHand"))
    THEN arm
    ELSE
    LET ps == proportion_scales(arm, landmarks) IN
    IF ps.skip THEN arm
    ELSE [arm EXCEPT !.bones = [i \in DOMAIN arm.bones |->
            IF arm.bones[i].name \in ARM_CHAIN
            THEN scale_bone_x(arm, arm.bones[i], ps.spine_cx, ps.arm_scale)
            ELSE IF arm.bones[i].name \in LEG_CHAIN
            THEN scale_bone_x(arm, arm.bones[i], ps.spine_cx, ps.hip_scale)
            ELSE arm.bones[i]]]

\* ------------------------------------------------------------------------
\* ensure_required_end_bones
\* ------------------------------------------------------------------------
\* The axis of the new end bone: a vertical stub when the head bone has no
\* length, else 0.3 of the head bone (at least 0.03 H) along the head bone.
EndBoneAxis(head_bone) ==
    LET axis == VSub(head_bone.tail, head_bone.head)
        len_c == ISqrt(VLenSq(axis) * 10000)
    IN  IF VLenSq(axis) = 0 THEN <<0, 0, Max(TDiv(H * 30, 1000), 30)>>
        ELSE VScale(axis, Max(TDiv(len_c * 3, 10), H * 3), len_c)

\* The completion pass without its return on a HeadTop_End that is there.
EnsureWithoutPresenceCheck(arm) ==
    IF ~HasBone(arm, "mixamorig:Head") THEN arm
    ELSE LET head_bone == GetBone(arm, "mixamorig:Head")
         IN  [arm EXCEPT !.bones =
                 Append(@, Bone("mixamorig:HeadTop_End", head_bone.tail,
                                VAdd(head_bone.tail, EndBoneAxis(head_bone)),
                                "mixamorig:Head"))]

ensure_required_end_bones(arm) ==
    IF HasBone(arm, "mixamorig:HeadTop_End") THEN arm
    ELSE IF ~HasBone(arm, "mixamorig:Head") THEN arm
    ELSE LET head_bone == GetBone(arm, "mixamorig:Head")
         IN  [arm EXCEPT !.bones =
                 Append(@, Bone("mixamorig:HeadTop_End", head_bone.tail,
                                VAdd(head_bone.tail, EndBoneAxis(head_bone)),
                                "mixamorig:Head"))]

\* ------------------------------------------------------------------------
\* calibrate_anatomy_refs_from_armature
\* ------------------------------------------------------------------------
\* _height_frac(point)
HeightFrac(point) == TDiv((point[3] - BZ) * 1000, Max(H, 1))

calibrate_anatomy_refs_from_armature(arm, a) ==
    LET W(name) == WorldHead(arm, GetBone(arm, name))
        Upd(rec, field, name, value(_)) ==
            IF HasBone(arm, name) THEN [rec EXCEPT ![field] = value(W(name))] ELSE rec
        LatFrac(p) == Abs(TDiv((p[1] - CX) * 1000, Max(H, 1)))
        ShoulderOuter(p) == Max(LatFrac(p), 40)
        LegX(p) == Max(LatFrac(p), 20)
        a1 == Upd(a, "hips_h", "mixamorig:Hips", HeightFrac)
        a2 == Upd(a1, "spine_h", "mixamorig:Spine", HeightFrac)
        a3 == Upd(a2, "spine1_h", "mixamorig:Spine1", HeightFrac)
        a4 == Upd(a3, "neck_h", "mixamorig:Neck", HeightFrac)
        a5 == Upd(a4, "shoulder_h", "mixamorig:LeftShoulder", HeightFrac)
        a6 == Upd(a5, "shoulder_outer", "mixamorig:LeftShoulder", ShoulderOuter)
    IN  Upd(a6, "leg_x", "mixamorig:LeftUpLeg", LegX)

\* ------------------------------------------------------------------------
\* Settings as parsed (lines 174-195)
\* ------------------------------------------------------------------------
weight_top_n == Max(1, Min(config.weight_top_n, 8))

\* In tenths.
weight_falloff == Max(1, config.weight_falloff_strength)

\* In hundredths.
min_weight == Max(0, config.min_weight_threshold)

max_influences == Max(1, Min(config.max_influences, 8))

\* str.strip().lower() on the texts the runs configure.
strip_lower(text) ==
    CASE text = " Distance " -> "distance"
      [] text = "BONE_HEAT" -> "bone_heat"
      [] text = "Synthetic" -> "synthetic"
      [] text = " ALL" -> "all"
      [] text = "Rigify" -> "rigify"
      [] OTHER -> text

\* cfg_text(key, default).strip().lower(): the value of the key, the
\* default when the table lacks the key.
cfg_text(key, default) ==
    strip_lower(IF key \in DOMAIN config THEN config[key] ELSE default)

\* The selector as lines 187-189 would leave it on any unknown text.
UnknownMethodKept == cfg_text("skinning_method", "distance")

skinning_method ==
    IF cfg_text("skinning_method", "distance") \in {"bone_heat", "distance"}
    THEN cfg_text("skinning_method", "distance") ELSE "bone_heat"

rig_source ==
    IF cfg_text("rig_source", "mixamo_template") \in {"mixamo_template", "synthetic"}
    THEN cfg_text("rig_source", "mixamo_template") ELSE "synthetic"

distance_weight_bone_scope ==
    IF cfg_text("distance_weight_bone_scope", "core") \in {"core", "all"}
    THEN cfg_text("distance_weight_bone_scope", "core") ELSE "core"

\* ------------------------------------------------------------------------
\* Geometry of the distance weights
\* ------------------------------------------------------------------------
\* Squared distance from point to segment [seg_a, seg_b], in 1e-4 squared
\* coordinate units (closest_point_on_segment, then the difference).
DistSqToSegment(point, seg_a, seg_b) ==
    LET ab == VSub(seg_b, seg_a)
        ap == VSub(point, seg_a)
        length_sq == VLenSq(ab)
        dot == VDot(ap, ab)
    IN  IF length_sq = 0 \/ dot <= 0 THEN VLenSq(ap) * 10000
        ELSE IF dot >= length_sq THEN VLenSq(VSub(point, seg_b)) * 10000
        ELSE LET num == VLenSq(ap) * length_sq - dot * dot
             IN  (num \div length_sq) * 10000 + ((num % length_sq) * 10000) \div length_sq

\* distance_to_bone, in hundredths of a coordinate unit.
distance_to_bone(point, bone_name) ==
    ISqrt(DistSqToSegment(point, bone_positions[bone_name].head,
                          bone_positions[bone_name].tail))

clamp01(value) == IF value < 0 THEN 0 ELSE IF value > 1000 THEN 1000 ELSE value

\* a / b in thousandths for thousandths a, b (b > 0).
Ratio(a, b) == TDiv(a * 1000, b)

\* a * b in thousandths.
Prod(a, b) == TDiv(a * b, 1000)

\* A gate that keeps every torso bone, Hips included, off the ground fringe.
GateWithoutHipsException(bone_name, x_norm, z_norm) ==
    IF bone_name \in TORSO_BONES /\ z_norm < 200 THEN 0 ELSE 1000

anatomy_gate(bone_name, x_norm, z_norm) ==
    LET side_width == Max(TDiv(anat.shoulder_outer * 16, 10), 80)
        leg_width == Max(TDiv(anat.leg_x * 24, 10), 100)
        arm_min_z == Max(anat.spine_h - 30, 350)
        leg_max_z == Min(anat.hips_h + 100, 720)
        arm_height_gate == clamp01(Ratio(z_norm - arm_min_z, 1000 - arm_min_z))
        leg_height_gate == clamp01(Ratio(leg_max_z - z_norm, Max(leg_max_z, 1)))
        center_gate ==
            1000 - clamp01(Ratio(Abs(x_norm) - 50, Max(anat.shoulder_outer * 2, 250)))
        head_lo == anat.neck_h - 60
    IN
    IF bone_name \in LEFT_ARM_BONES THEN
        IF x_norm <= -10 \/ z_norm < arm_min_z THEN 0
        ELSE Max(1, Prod(clamp01(Ratio(x_norm + 10, side_width)), arm_height_gate))
    ELSE IF bone_name \in RIGHT_ARM_BONES THEN
        IF x_norm >= 10 \/ z_norm < arm_min_z THEN 0
        ELSE Max(1, Prod(clamp01(Ratio(-x_norm + 10, side_width)), arm_height_gate))
    ELSE IF bone_name \in LEFT_LEG_BONES THEN
        IF x_norm <= -10 \/ z_norm > leg_max_z THEN 0
        ELSE Max(1, Prod(clamp01(Ratio(x_norm + 10, leg_width)), leg_height_gate))
    ELSE IF bone_name \in RIGHT_LEG_BONES THEN
        IF x_norm >= 10 \/ z_norm > leg_max_z THEN 0
        ELSE Max(1, Prod(clamp01(Ratio(-x_norm + 10, leg_width)), leg_height_gate))
    ELSE IF bone_name \in TORSO_BONES THEN
        IF z_norm < 200 THEN (IF bone_name = "mixamorig:Hips" THEN 1000 ELSE 0)
        ELSE IF bone_name = "mixamorig:Hips" THEN
            Max(1, 600 + TDiv(4 * clamp01(Ratio(anat.hips_h + 80 - z_norm,
                                                 Max(anat.hips_h + 80, 1))), 10))
        ELSE IF bone_name = "mixamorig:Spine" THEN
            Max(1, Prod(center_gate, clamp01(Ratio(z_norm - (anat.hips_h - 50), 350))))
        ELSE IF bone_name = "mixamorig:Spine1" THEN
            Max(1, Prod(center_gate, clamp01(Ratio(z_norm - (anat.spine_h - 100), 350))))
        ELSE
            Max(1, Prod(center_gate, clamp01(Ratio(z_norm - (anat.spine1_h - 100), 300))))
    ELSE IF bone_name \in HEAD_BONES THEN
        IF z_norm < head_lo THEN 0
        ELSE Max(1, Prod(center_gate,
                         clamp01(Ratio(z_norm - head_lo, Max(1000 - head_lo, 1)))))
    ELSE 1000

\* ------------------------------------------------------------------------
\* skin_mesh_with_distance_weights
\* ------------------------------------------------------------------------
\* exp(-n) in millionths, n = 0..13 (below one millionth after that).
ExpInt == <<1000000, 367879, 135335, 49787, 18316, 6738, 2479, 912, 335, 123, 45, 17, 6, 2>>

\* exp(-j/20) in thousandths, j = 0..19.
ExpFrac ==
    <<1000, 951, 905, 861, 819, 779, 741, 705, 670, 638,
      607, 577, 549, 522, 497, 472, 449, 427, 407, 387>>

\* math.exp(-x) in millionths for x >= 0 in thousandths.
ExpNeg(x) ==
    IF x \div 1000 >= Len(ExpInt) THEN 0
    ELSE (ExpInt[(x \div 1000) + 1] * ExpFrac[((x % 1000) \div 50) + 1]) \div 1000

\* w = exp(-((d / min_dist - 1) ** 2) * weight_falloff) * gate, millionths.
\* Past d = 17 min_dist the exponent is over 25 for every falloff >= 0.1.
RawWeight(d, min_dist, gate) ==
    LET r == TDiv(d * 1000, min_dist) - 1000
    IN  IF r >= 16000 THEN 0
        ELSE (ExpNeg((((r * r) \div 1000) * weight_falloff) \div 10) * gate) \div 1000

\* distances.sort(key=lambda x: x[1]): ascending and stable, the earlier of
\* two equal distances stays first.
RECURSIVE SortByDistance(_)
SortByDistance(s) ==
    IF s = <<>> THEN <<>>
    ELSE LET k == CHOOSE i \in DOMAIN s :
                      \A j \in DOMAIN s : s[i].d < s[j].d \/ (s[i].d = s[j].d /\ i <= j)
         IN  <<s[k]>> \o SortByDistance([j \in 1..(Len(s) - 1) |->
                                            IF j < k THEN s[j] ELSE s[j + 1]])

\* The bones the distance weights range over.
ScopeBones(arm) ==
    LET all_bone_names == [i \in DOMAIN arm.bones |-> arm.bones[i].name]
        core == SelectSeq(all_bone_names, LAMBDA n : n \in PRIMARY_WEIGHT_BONES)
    IN  IF distance_weight_bone_scope = "all" THEN all_bone_names
        ELSE IF core = <<>> THEN all_bone_names ELSE core

NormCoord(c, origin) == TDiv((c - origin) * 1000, Max(H, 1))

\* A candidate list that takes every bone with a gate of 1.
CandidatesUnmasked(co, bone_names) ==
    [i \in DOMAIN bone_names |->
        [b |-> bone_names[i], d |-> distance_to_bone(co, bone_names[i]), gate |-> 1000]]

\* The candidate list of one vertex: (bone, distance, gate), gated bones
\* left out, or every bone ungated when the gates left none.
Candidates(co, bone_names) ==
    LET x_norm == NormCoord(co[1], CX)
        z_norm == NormCoord(co[3], BZ)
        Gate(b) == IF config.distance_use_anatomy_masks
                   THEN anatomy_gate(b, x_norm, z_norm) ELSE 1000
        gated == SelectSeq([i \in DOMAIN bone_names |->
                               [b |-> bone_names[i],
                                d |-> distance_to_bone(co, bone_names[i]),
                                gate |-> Gate(bone_names[i])]],
                           LAMBDA e : e.gate > 0)
    IN  IF gated # <<>> THEN gated
        ELSE [i \in DOMAIN bone_names |->
                 [b |-> bone_names[i], d |-> distance_to_bone(co, bone_names[i]),
                  gate |-> 1000]]

\* top = distances[:max(1, min(weight_top_n, len(distances)))] after the
\* sort by distance.
TopOf(distances) == SubSeq(distances, 1, Max(1, Min(weight_top_n, Len(distances))))

TopCandidates(co, bone_names) == TopOf(SortByDistance(Candidates(co, bone_names)))

\* raw_weights over the top candidates; min_dist = max(top[0][1], 1e-3).
RawWeightsOf(top) ==
    [i \in DOMAIN top |->
        [b |-> top[i].b, w |-> RawWeight(top[i].d, Max(top[1].d, 100), top[i].gate)]]

\* raw_weights of one vertex.
RawWeights(co, bone_names) == RawWeightsOf(TopCandidates(co, bone_names))

\* The assignments with normalized_w > min_weight, as numerators over total.
KeptWeights(raw_weights, total) ==
    [den |-> total,
     g |-> [i \in DOMAIN raw_weights |-> [b |-> raw_weights[i].b, n |-> raw_weights[i].w]]]

\* Lines 878-888: the fallback to the nearest bone when the raw weights
\* sum to nothing, else the normalised weights above min_weight.
AssignWeights(raw_weights, total) ==
    IF total = 0
    THEN [den |-> 1, g |-> <<[b |-> raw_weights[1].b, n |-> 1]>>]
    ELSE KeptWeights(SelectSeq(raw_weights, LAMBDA e : e.w * 100 > min_weight * total),
                     total)

TotalOf(raw_weights) == SumSeq([i \in DOMAIN raw_weights |-> raw_weights[i].w])

NormalizedWeights(raw_weights) == AssignWeights(raw_weights, TotalOf(raw_weights))

\* The weights one vertex ends with: [den, g], the weight of g[i].b being
\* g[i].n / den.
DistanceVertexWeights(co, bone_names) == NormalizedWeights(RawWeights(co, bone_names))

skin_mesh_with_distance_weights(verts) ==
    [groups |-> [i \in DOMAIN armature_obj.bones |-> armature_obj.bones[i].name],
     weights |-> [v \in DOMAIN verts |->
                     DistanceVertexWeights(verts[v].co, ScopeBones(armature_obj))]]

\* ------------------------------------------------------------------------
\* clamp_vertex_influences, verify_weights
\* ------------------------------------------------------------------------
\* influences.sort(key=weight, reverse=True): descending and stable.
RECURSIVE SortByWeightDesc(_)
SortByWeightDesc(s) ==
    IF s = <<>> THEN <<>>
    ELSE LET k == CHOOSE i \in DOMAIN s :
                      \A j \in DOMAIN s : s[i].n > s[j].n \/ (s[i].n = s[j].n /\ i <= j)
         IN  <<s[k]>> \o SortByWeightDesc([j \in 1..(Len(s) - 1) |->
                                              IF j < k THEN s[j] ELSE s[j + 1]])

\* n / den < 1e-9
BelowNano(n, den) ==
    n < (den \div 1000000000) + (IF den % 1000000000 > 0 THEN 1 ELSE 0)

\* One vertex of clamp_vertex_influences.
ClampVertex(vw, max_inf) ==
    LET influences == SelectSeq(vw.g, LAMBDA e : e.n > 0)
        sorted == SortByWeightDesc(influences)
        keep == SubSeq(sorted, 1, Min(max_inf, Len(sorted)))
        total == SumSeq([i \in DOMAIN keep |-> keep[i].n])
        kept_names == {keep[i].b : i \in DOMAIN keep}
    IN  IF Len(influences) <= max_inf THEN vw
        ELSE IF BelowNano(total, vw.den) THEN vw
        ELSE [den |-> total,
              g |-> [i \in DOMAIN vw.g |->
                        IF vw.g[i].b \in kept_names THEN vw.g[i]
                        ELSE [vw.g[i] EXCEPT !.n = 0]]]

clamp_vertex_influences(mesh_weights, max_inf) ==
    IF max_inf < 1 THEN mesh_weights
    ELSE [v \in DOMAIN mesh_weights |-> ClampVertex(mesh_weights[v], max_inf)]

\* The groups some vertex holds with a weight above 0.
UsedGroups(mesh_weights) ==
    UNION {{mesh_weights[v].g[i].b :
                i \in {j \in DOMAIN mesh_weights[v].g : mesh_weights[v].g[j].n > 0}} :
           v \in DOMAIN mesh_weights}

verify_weights(mesh_weights) == Cardinality(UsedGroups(mesh_weights))

\* ------------------------------------------------------------------------
\* prepare_mesh_for_skinning, skin_mesh_with_bone_heat
\* ------------------------------------------------------------------------
NoWeights == [den |-> 1, g |-> <<>>]

\* The vertices the cleanup of merge_vertices=True keeps: merge_by_distance
\* keeps the first of the vertices at one place, delete_loose drops the
\* vertices no face uses.
Survivors(verts) ==
    SelectSeq([i \in DOMAIN verts |-> i],
              LAMBDA i : ~verts[i].loose
                         /\ \A j \in 1..(i - 1) : verts[j].co # verts[i].co)

prepare_mesh_for_skinning(verts, merge_vertices) ==
    IF merge_vertices
    THEN LET keep == Survivors(verts) IN [k \in DOMAIN keep |-> verts[keep[k]]]
    ELSE verts

\* What bpy.ops.object.parent_set(type='ARMATURE_AUTO') may do: raise
\* (with or without groups left behind), return with empty groups, or
\* return weights.  The solver is opaque; its weights are drawn from
\* patterns: normalised weights over the first bones, or weights of 5e-10.
HeatOutcomes == {"raise", "raise_partial", "empty", "weights", "tiny"}

HeatPattern(outcome, names) ==
    IF outcome \in {"weights", "raise_partial"}
    THEN LET k == Min(5, Len(names))
         IN  [den |-> (k * (k + 1)) \div 2,
              g |-> [i \in 1..k |-> [b |-> names[i], n |-> k + 1 - i]]]
    ELSE IF outcome = "tiny"
    THEN [den |-> 2000000000,
          g |-> [i \in 1..Min(2, Len(names)) |-> [b |-> names[i], n |-> 1]]]
    ELSE NoWeights

\* The mesh after skin_mesh_with_bone_heat ran with the given outcome:
\* vertex_groups.clear() comes first, the solver names a group per bone.
skin_mesh_with_bone_heat(verts, outcome) ==
    LET names == [i \in DOMAIN armature_obj.bones |-> armature_obj.bones[i].name]
    IN  [raised |-> outcome \in {"raise", "raise_partial"},
         groups |-> IF outcome = "raise" THEN <<>> ELSE names,
         weights |-> [v \in DOMAIN verts |-> HeatPattern(outcome, names)]]

\* ------------------------------------------------------------------------
\* Inputs: the scenes, the template files, the settings
\* ------------------------------------------------------------------------
\* How many accessory mesh objects a scene holds beside its body mesh.
MaxExtraMeshes == 1

V(x, y, z) == [co |-> <<x, y, z>>, loose |-> FALSE]

\* Body meshes, 100 units tall unless named otherwise.
\*   wide:   T-pose, arms and hips wider than the procedural skeleton
\*   match:  T-pose with the procedural skeleton's own arm span and hips
\*   spread: T-pose, arm span and hips more than five times the skeleton's
\*   narrow: arm span and hips less than 0.3 of the skeleton's
\*   close:  200 units tall, arm span 1.35% wider than the skeleton's
\*   sparse: no band holds three vertices
\*   flat:   every vertex at one Z
\*   h9, h10, h11: two vertices 9, 10 and 11 units apart in Z
BodyMesh(shape) ==
    CASE shape = "wide" ->
           <<V(-6, 0, 0), V(6, 0, 0), V(-9, 0, 48), V(9, 0, 48), V(-8, 0, 60),
             V(8, 0, 60), V(-45, 0, 72), V(0, 0, 72), V(45, 0, 72), V(0, 0, 100)>>
      [] shape = "match" ->
           <<V(-6, 0, 0), V(6, 0, 0), V(-6, 0, 48), V(6, 0, 48), V(-8, 0, 60),
             V(8, 0, 60), V(-37, 0, 72), V(0, 0, 72), V(37, 0, 72), V(0, 0, 100)>>
      [] shape = "spread" ->
           <<V(-6, 0, 0), V(6, 0, 0), V(-40, 0, 48), V(40, 0, 48),
             V(-200, 0, 72), V(0, 0, 72), V(200, 0, 72), V(0, 0, 100)>>
      [] shape = "narrow" ->
           <<V(-6, 0, 0), V(6, 0, 0), V(-2, 0, 48), V(2, 0, 48),
             V(-5, 0, 72), V(0, 0, 72), V(5, 0, 72), V(0, 0, 100)>>
      [] shape = "close" ->
           <<V(-12, 0, 0), V(12, 0, 0), V(-12, 0, 96), V(12, 0, 96),
             V(-75, 0, 144), V(0, 0, 144), V(75, 0, 144), V(0, 0, 200)>>
      [] shape = "sparse" -> <<V(-6, 0, 0), V(6, 0, 0), V(30, 0, 72), V(0, 0, 100)>>
      [] shape = "flat" -> <<V(-5, 0, 3), V(0, 0, 3), V(5, 0, 3)>>
      [] shape = "h9" -> <<V(0, 0, 0), V(0, 0, 9)>>
      [] shape = "h10" -> <<V(0, 0, 0), V(0, 0, 10)>>
      [] OTHER -> <<V(0, 0, 0), V(0, 0, 11)>>

Shapes ==
    {"wide", "match", "spread", "narrow", "close", "sparse", "flat", "h9", "h10", "h11"}

\* An accessory object: a vertex, a second vertex at the same place, and a
\* vertex no face uses.
AccessoryMesh(k) ==
    <<V(4 * k, 0, 72), V(4 * k, 0, 72), [co |-> <<2 * k, 0, 30>>, loose |-> TRUE]>>

\* The scene the GLB import leaves: no mesh object at all, or a body and
\* `extra` accessories.
Scene(shape, extra) ==
    IF shape = "none" THEN <<>>
    ELSE <<BodyMesh(shape)>> \o [k \in 1..extra |-> AccessoryMesh(k)]

\* The proportions the template rigs were authored with.
template_anatomy ==
    [hips_h |-> 500, spine_h |-> 560, spine1_h |-> 620, neck_h |-> 760,
     shoulder_h |-> 740, shoulder_outer |-> 100, leg_x |-> 80]

Without(bones, names) == SelectSeq(bones, LAMBDA b : b.name \notin names)

\* A finger bone of two units at the tail of the hand bone.
Finger(name, hand, dx) ==
    Bone(name, hand.tail, VAdd(hand.tail, <<dx, 0, 0>>), hand.name)

\* The bones of a template rig of the given kind over the full bone list.
TemplateBones(kind, base) ==
    CASE kind = "mixamo" ->
           base \o <<Finger("mixamorig:LeftHandIndex1", base[11], 2),
                     Finger("mixamorig:RightHandIndex1", base[15], -2)>>
      [] kind = "lopsided" ->
           [base EXCEPT ![11] = [@ EXCEPT !.tail = VAdd(base[11].tail, <<5, 0, 0>>)]]
      [] kind = "left_side" ->
           SelectSeq(base, LAMBDA b : b.name \in LEFT_ARM_BONES \cup LEFT_LEG_BONES)
      [] kind = "no_end" -> Without(base, {"mixamorig:HeadTop_End"})
      [] kind = "point_head" ->
           Without([base EXCEPT ![6] = [@ EXCEPT !.tail = base[6].head]],
                   {"mixamorig:HeadTop_End"})
      [] kind = "headless" -> Without(base, {"mixamorig:HeadTop_End", "mixamorig:Head"})
      [] OTHER -> SubSeq(base, 1, 3)

\* A rig authored 50 units tall, away from the origin.
TemplateRig(kind) ==
    [bones |-> TemplateBones(kind, bone_defs(50, 0, 0, 0, template_anatomy)),
     loc |-> <<10, 0, 5>>]

\* What the template path holds: [exists, import_raises, armatures].
TemplateFile(asset) ==
    CASE asset = "missing" ->
           [exists |-> FALSE, import_raises |-> FALSE, armatures |-> <<>>]
      [] asset = "corrupt" ->
           [exists |-> TRUE, import_raises |-> TRUE, armatures |-> <<>>]
      [] asset = "no_armature" ->
           [exists |-> TRUE, import_raises |-> FALSE, armatures |-> <<>>]
      [] asset = "two" ->
           [exists |-> TRUE, import_raises |-> FALSE,
            armatures |-> <<TemplateRig("stub"), TemplateRig("mixamo")>>]
      [] OTHER ->
           [exists |-> TRUE, import_raises |-> FALSE, armatures |-> <<TemplateRig(asset)>>]

TemplateAssets ==
    {"missing", "corrupt", "no_armature", "two", "mixamo", "lopsided", "left_side",
     "no_end", "point_head", "headless"}

\* The settings when config.json sets nothing (weight_falloff_strength in
\* tenths, min_weight_threshold in hundredths).
default_config ==
    [weight_top_n |-> 4, weight_falloff_strength |-> 20, min_weight_threshold |-> 1,
     max_influences |-> 4, skinning_method |-> "distance",
     rig_source |-> "mixamo_template", distance_weight_bone_scope |-> "core",
     distance_use_anatomy_masks |-> TRUE, distance_calibrate_from_armature |-> TRUE,
     mesh_proportional_fit |-> TRUE]

\* Settings of the weight algorithm the runs range over.
WeightSettings ==
    {[top_n |-> 4, falloff |-> 20, min_w |-> 1, max_inf |-> 4, masks |-> TRUE, scope |-> "core"],
     [top_n |-> 4, falloff |-> 20, min_w |-> 100, max_inf |-> 4, masks |-> TRUE, scope |-> "core"],
     [top_n |-> 9, falloff |-> 0, min_w |-> 0, max_inf |-> 1, masks |-> FALSE, scope |-> "all"],
     [top_n |-> 0, falloff |-> 1000, min_w |-> -5, max_inf |-> 9, masks |-> TRUE, scope |-> "legacy"],
     [top_n |-> 2, falloff |-> 20, min_w |-> 50, max_inf |-> 2, masks |-> FALSE, scope |-> "core"],
     [top_n |-> 8, falloff |-> 5, min_w |-> 0, max_inf |-> 8, masks |-> TRUE, scope |-> "all"]}

WithWeights(c, w) ==
    [c EXCEPT !.weight_top_n = w.top_n, !.weight_falloff_strength = w.falloff,
              !.min_weight_threshold = w.min_w, !.max_influences = w.max_inf,
              !.distance_use_anatomy_masks = w.masks,
              !.distance_weight_bone_scope = w.scope]

\* Runs that vary the scene and the rig.
RigScenarios ==
    {[config |-> [default_config EXCEPT !.rig_source = r[1],
                                        !.mesh_proportional_fit = fit,
                                        !.distance_calibrate_from_armature = cal],
      template |-> r[2], shape |-> shape, extra |-> 0] :
        r \in ({"mixamo_template"} \X TemplateAssets)
                 \cup {<<"synthetic", "missing">>, <<"rigify", "mixamo">>},
        fit \in BOOLEAN, cal \in BOOLEAN, shape \in Shapes \cup {"none"}}

\* Runs that vary the skinning method, the weight settings and the number
\* of mesh objects.
SkinScenarios ==
    {[config |-> WithWeights([default_config EXCEPT !.skinning_method = m,
                                                    !.rig_source = "synthetic"], w),
      template |-> "missing", shape |-> "wide", extra |-> extra] :
        m \in {"bone_heat", "distance", "auto"}, w \in WeightSettings,
        extra \in 0..MaxExtraMeshes}

\* The settings table without the key.
Unset(c, key) == [k \in DOMAIN c \ {key} |-> c[k]]

\* Tables that leave a selector out, or spell it in another case or with
\* blanks around it.
SelectorConfigs ==
    {Unset(default_config, "skinning_method"),
     Unset(default_config, "rig_source"),
     Unset(default_config, "distance_weight_bone_scope"),
     [default_config EXCEPT !.skinning_method = " Distance "],
     [default_config EXCEPT !.skinning_method = "BONE_HEAT"],
     [default_config EXCEPT !.rig_source = "Synthetic"],
     [default_config EXCEPT !.rig_source = "Rigify", !.skinning_method = "heat",
                            !.distance_weight_bone_scope = "legacy",
                            !.weight_top_n = 100, !.max_influences = -3],
     [default_config EXCEPT !.distance_weight_bone_scope = " ALL"]}

\* Runs that vary how the selectors are written.
SelectorScenarios ==
    {[config |-> c, template |-> "mixamo", shape |-> "wide", extra |-> 0] :
        c \in SelectorConfigs}

Scenarios == RigScenarios \cup SkinScenarios \cup SelectorScenarios

\* ------------------------------------------------------------------------
\* The script, top to bottom
\* ------------------------------------------------------------------------
Step(op, mesh, out) == [op |-> op, mesh |-> mesh, out |-> out]

Init ==
    \E sc \in Scenarios :
        /\ pc = "import"
        /\ config = sc.config
        /\ template_asset = sc.template
        /\ meshes = Scene(sc.shape, sc.extra)
        /\ H = 0 /\ CX = 0 /\ CY = 0 /\ BZ = 0
        /\ armature_obj = NoArmature
        /\ anat = anatomy_defaults
        /\ mesh_landmarks = NoLandmarks
        /\ bone_positions = <<>>
        /\ mesh_idx = 0
        /\ vertex_groups = [m \in DOMAIN meshes |-> <<>>]
        /\ weights = [m \in DOMAIN meshes |-> [v \in DOMAIN meshes[m] |-> NoWeights]]
        /\ method_used = [m \in DOMAIN meshes |-> "none"]
        /\ exit_code = -1
        /\ steps = <<>>
        /\ fitted_armature = NoArmature
        /\ scene_armatures = 0

\* Lines 94-100: the import, and the exit when the scene holds no mesh.
ImportGLB ==
    /\ pc = "import"
    /\ IF meshes = <<>>
       THEN pc' = "exit" /\ exit_code' = 1
       ELSE pc' = "measure" /\ UNCHANGED exit_code
    /\ UNCHANGED <<config, template_asset, scene_armatures, meshes, H, CX, CY, BZ, armature_obj, anat,
                   mesh_landmarks, bone_positions, mesh_idx, vertex_groups, weights,
                   method_used, steps, fitted_armature>>

\* The height check with the threshold itself rejected.
HeightAtMostThreshold(model_height) == model_height <= MIN_MODEL_HEIGHT

\* if model_height < 0.01: sys.exit(1)
HeightTooSmall(model_height) == model_height < MIN_MODEL_HEIGHT

\* Lines 108-137: the bounding box of all meshes and the height check.
MeasureModel ==
    /\ pc = "measure"
    /\ LET verts == AllVerts(meshes)
           lo(k) == MinOf({verts[i][k] : i \in DOMAIN verts})
           hi(k) == MaxOf({verts[i][k] : i \in DOMAIN verts})
       IN  /\ H' = hi(3) - lo(3)
           /\ CX' = TDiv(lo(1) + hi(1), 2)
           /\ CY' = TDiv(lo(2) + hi(2), 2)
           /\ BZ' = lo(3)
           /\ IF HeightTooSmall(hi(3) - lo(3))
              THEN pc' = "exit" /\ exit_code' = 1
              ELSE pc' = "build" /\ UNCHANGED exit_code
    /\ UNCHANGED <<config, template_asset, scene_armatures, meshes, armature_obj, anat, mesh_landmarks,
                   bone_positions, mesh_idx, vertex_groups, weights, method_used,
                   steps, fitted_armature>>

\* max(armatures, key=bone count): the first of the largest.
MostBones(armatures) ==
    armatures[CHOOSE i \in DOMAIN armatures :
                  \A j \in DOMAIN armatures :
                      Len(armatures[i].bones) > Len(armatures[j].bones)
                          \/ (Len(armatures[i].bones) = Len(armatures[j].bones) /\ i <= j)]

\* An import that keeps the first armature it finds.
ImportKeepsFirstArmature(file) ==
    IF ~file.exists \/ file.import_raises \/ file.armatures = <<>>
    THEN [raised |-> TRUE, armature |-> NoArmature, kept |-> 0]
    ELSE [raised |-> FALSE, armature |-> file.armatures[1], kept |-> 1]

\* import_template_armature: [raised, armature, kept], kept the number of
\* armature objects the call leaves in the scene.  It raises when the path
\* does not exist, when the glTF import raises, and when the import brought
\* no armature; otherwise every new object but the chosen armature is removed.
import_template_armature(file) ==
    IF ~file.exists \/ file.import_raises \/ file.armatures = <<>>
    THEN [raised |-> TRUE, armature |-> NoArmature, kept |-> 0]
    ELSE [raised |-> FALSE, armature |-> MostBones(file.armatures), kept |-> 1]

\* Lines 608-618: the template rig, or the synthetic one when the template
\* is not asked for or its import raised.
RigOf(imported) ==
    IF rig_source = "mixamo_template" /\ ~imported.raised
    THEN [source |-> "template", armature |-> imported.armature,
          armatures |-> imported.kept]
    ELSE [source |-> "synthetic", armature |-> create_synthetic_armature,
          armatures |-> (IF rig_source = "mixamo_template" THEN imported.kept ELSE 0) + 1]

BuiltArmature == RigOf(import_template_armature(TemplateFile(template_asset)))

BuildArmature ==
    /\ pc = "build"
    /\ \E built \in {BuiltArmature} :
           /\ armature_obj' = built.armature
           /\ scene_armatures' = built.armatures
           /\ steps' = Append(steps, Step("build", 0, built.source))
    /\ pc' = "fit"
    /\ UNCHANGED <<config, template_asset, meshes, H, CX, CY, BZ, anat, mesh_landmarks,
                   bone_positions, mesh_idx, vertex_groups, weights, method_used,
                   exit_code, fitted_armature>>

\* Line 620.
FitArmature ==
    /\ pc = "fit"
    /\ \E fitted \in {fit_armature_to_model(armature_obj)} :
           /\ armature_obj' = fitted
           /\ fitted_armature' = fitted
    /\ steps' = Append(steps, Step("fit", 0, "ok"))
    /\ pc' = "adjust"
    /\ UNCHANGED <<config, template_asset, scene_armatures, meshes, H, CX, CY, BZ, anat, mesh_landmarks,
                   bone_positions, mesh_idx, vertex_groups, weights, method_used,
                   exit_code>>

\* Lines 621-623.
AdjustProportions ==
    /\ pc = "adjust"
    /\ IF config.mesh_proportional_fit
       THEN \E landmarks \in {analyze_mesh_silhouette(meshes)} :
                /\ mesh_landmarks' = landmarks
                /\ armature_obj' = adjust_armature_proportions(armature_obj, landmarks)
                /\ steps' = Append(steps, Step("adjust", 0,
                       IF landmarks.valid THEN "landmarks" ELSE "none"))
       ELSE UNCHANGED <<mesh_landmarks, armature_obj, steps>>
    /\ pc' = "ensure"
    /\ UNCHANGED <<config, template_asset, scene_armatures, meshes, H, CX, CY, BZ, anat, bone_positions,
                   mesh_idx, vertex_groups, weights, method_used, exit_code, fitted_armature>>

\* Line 624.
EnsureEndBones ==
    /\ pc = "ensure"
    /\ armature_obj' = ensure_required_end_bones(armature_obj)
    /\ steps' = Append(steps, Step("ensure", 0, "ok"))
    /\ pc' = "calibrate"
    /\ UNCHANGED <<config, template_asset, scene_armatures, meshes, H, CX, CY, BZ, anat, mesh_landmarks,
                   bone_positions, mesh_idx, vertex_groups, weights, method_used,
                   exit_code, fitted_armature>>

\* Lines 625-626.
CalibrateAnatomy ==
    /\ pc = "calibrate"
    /\ IF config.distance_calibrate_from_armature
       THEN /\ anat' = calibrate_anatomy_refs_from_armature(armature_obj, anat)
            /\ steps' = Append(steps, Step("calibrate", 0, "ok"))
       ELSE UNCHANGED <<anat, steps>>
    /\ pc' = "positions"
    /\ UNCHANGED <<config, template_asset, scene_armatures, meshes, H, CX, CY, BZ, armature_obj,
                   mesh_landmarks, bone_positions, mesh_idx, vertex_groups, weights,
                   method_used, exit_code, fitted_armature>>

\* Bone name -> world head and tail of the armature as it stands.
WorldPositions(arm) ==
    [n \in BoneNames(arm) |->
        [head |-> WorldHead(arm, GetBone(arm, n)), tail |-> WorldTail(arm, GetBone(arm, n))]]

\* Lines 637-642, and the loop's first mesh.
BuildBonePositions ==
    /\ pc = "positions"
    /\ bone_positions' = WorldPositions(armature_obj)
    /\ steps' = Append(steps, Step("positions", 0, "ok"))
    /\ mesh_idx' = 1
    /\ pc' = "prepare"
    /\ UNCHANGED <<config, template_asset, scene_armatures, meshes, H, CX, CY, BZ, armature_obj, anat,
                   mesh_landmarks, vertex_groups, weights, method_used, exit_code,
                   fitted_armature>>

\* ------------------------------------------------------------------------
\* The skinning loop (lines 914-945)
\* ------------------------------------------------------------------------
\* A skinning loop that recalibrates the anatomy for every mesh.
SkinningResetsAnatomy ==
    /\ anat' = anatomy_defaults
    /\ UNCHANGED <<config, template_asset, scene_armatures, H, CX, CY, BZ, armature_obj,
                   mesh_landmarks, bone_positions, exit_code, fitted_armature>>

unchanged_by_skinning ==
    UNCHANGED <<config, template_asset, scene_armatures, H, CX, CY, BZ, armature_obj, anat,
                mesh_landmarks, bone_positions, exit_code, fitted_armature>>

\* A distance pass that starts on the groups the mesh already has.
GroupsKept(groups, mesh_weights) == [groups |-> groups, weights |-> mesh_weights]

\* mesh_obj.vertex_groups.clear() (line 829): no group is left, and with
\* the groups every weight of every vertex goes.
vertex_groups_clear(groups, mesh_weights) ==
    [groups |-> <<>>, weights |-> [v \in DOMAIN mesh_weights |-> NoWeights]]

\* vg.add([vert.index], w, 'REPLACE') for the weights of one vertex on top
\* of the weights the vertex has: a written group takes the new weight,
\* every other group keeps its own.
ReplaceWeights(had, written) ==
    IF had.g = <<>> THEN written
    ELSE LET names == {written.g[i].b : i \in {j \in DOMAIN written.g : written.g[j].n > 0}}
             left == SelectSeq(had.g, LAMBDA e : e.b \notin names)
         IN  [den |-> had.den * written.den,
              g |-> [i \in DOMAIN left |-> [left[i] EXCEPT !.n = @ * written.den]]
                    \o [i \in DOMAIN written.g |->
                            [written.g[i] EXCEPT !.n = @ * had.den]]]

\* skin_mesh_with_distance_weights on a mesh that may hold groups and
\* weights of earlier attempts: the clear, a new group per bone, then the
\* weights of every vertex.
DistanceWeightsOnto(groups, mesh_weights, verts) ==
    LET cleared == vertex_groups_clear(groups, mesh_weights)
        r == skin_mesh_with_distance_weights(verts)
    IN  [groups |-> cleared.groups \o r.groups,
         weights |-> [v \in DOMAIN verts |->
                         ReplaceWeights(cleared.weights[v], r.weights[v])]]

\* Distance weights that leave the method of the mesh as it was set.
DistanceSkinUnlabelled(method) ==
    \E r \in {DistanceWeightsOnto(vertex_groups[mesh_idx], weights[mesh_idx],
                                  meshes[mesh_idx])} :
        /\ vertex_groups' = [vertex_groups EXCEPT ![mesh_idx] = r.groups]
        /\ weights' = [weights EXCEPT ![mesh_idx] = r.weights]
        /\ steps' = Append(steps, Step("distance", mesh_idx, method))
        /\ pc' = "clamp"
        /\ UNCHANGED <<meshes, mesh_idx, method_used>>

\* The state after skin_mesh_with_distance_weights(mesh_obj), reported as
\* `method`.
DistanceSkin(method) ==
    \E r \in {DistanceWeightsOnto(vertex_groups[mesh_idx], weights[mesh_idx],
                                  meshes[mesh_idx])} :
        /\ vertex_groups' = [vertex_groups EXCEPT ![mesh_idx] = r.groups]
        /\ weights' = [weights EXCEPT ![mesh_idx] = r.weights]
        /\ method_used' = [method_used EXCEPT ![mesh_idx] = method]
        /\ steps' = Append(steps, Step("distance", mesh_idx, method))
        /\ pc' = "clamp"
        /\ UNCHANGED <<meshes, mesh_idx>>

\* A loop in which an exception of bone heat leads to the retry, as empty
\* groups do.
HeatSkinRetryOnRaise(verts, outcome, log, empty_next) ==
    \E r \in {skin_mesh_with_bone_heat(verts, outcome)} :
        /\ meshes' = [meshes EXCEPT ![mesh_idx] = verts]
        /\ vertex_groups' = [vertex_groups EXCEPT ![mesh_idx] = r.groups]
        /\ weights' = [weights EXCEPT ![mesh_idx] = r.weights]
        /\ steps' = steps \o log
        /\ pc' = IF r.raised \/ verify_weights(r.weights) = 0 THEN empty_next ELSE "clamp"
        /\ UNCHANGED <<mesh_idx, method_used>>

\* The state after skin_mesh_with_bone_heat on `verts` with `outcome`;
\* `log` are the steps made, `empty_next` the place to go on empty groups.
HeatSkin(verts, outcome, log, empty_next) ==
    \E r \in {skin_mesh_with_bone_heat(verts, outcome)} :
        /\ meshes' = [meshes EXCEPT ![mesh_idx] = verts]
        /\ vertex_groups' = [vertex_groups EXCEPT ![mesh_idx] = r.groups]
        /\ weights' = [weights EXCEPT ![mesh_idx] = r.weights]
        /\ steps' = steps \o log
        /\ pc' = IF r.raised THEN "except"
                 ELSE IF verify_weights(r.weights) = 0 THEN empty_next
                 ELSE "clamp"
        /\ UNCHANGED <<mesh_idx, method_used>>

\* Lines 915, 918: prepare_mesh_for_skinning(merge_vertices=False).
PrepareMesh ==
    /\ pc = "prepare"
    /\ meshes' = [meshes EXCEPT ![mesh_idx] = prepare_mesh_for_skinning(@, FALSE)]
    /\ method_used' = [method_used EXCEPT ![mesh_idx] = skinning_method]
    /\ steps' = Append(steps, Step("prepare", mesh_idx, skinning_method))
    /\ pc' = "skin"
    /\ UNCHANGED <<mesh_idx, vertex_groups, weights>>
    /\ unchanged_by_skinning

\* Line 932: the distance method as the configured one.
SkinDistance ==
    /\ pc = "skin"
    /\ skinning_method # "bone_heat"
    /\ DistanceSkin("distance")
    /\ unchanged_by_skinning

\* Lines 921-923: the first bone-heat attempt and its verification.
HeatAttempt ==
    /\ pc = "skin"
    /\ skinning_method = "bone_heat"
    /\ \E outcome \in HeatOutcomes :
           HeatSkin(meshes[mesh_idx], outcome,
                    <<Step("heat", mesh_idx, outcome)>>, "retry")
    /\ unchanged_by_skinning

\* Lines 925-927: the cleanup pass, the second attempt and its verification.
HeatRetry ==
    /\ pc = "retry"
    /\ \E outcome \in HeatOutcomes :
           HeatSkin(prepare_mesh_for_skinning(meshes[mesh_idx], TRUE), outcome,
                    <<Step("cleanup", mesh_idx, "ok"), Step("heat", mesh_idx, outcome)>>,
                    "fallback")
    /\ unchanged_by_skinning

\* Lines 929-930: the retry came back empty too.
DistanceFallback ==
    /\ pc = "fallback"
    /\ DistanceSkin("distance_fallback")
    /\ unchanged_by_skinning

\* A loop without the handler: the exception ends the run.
ExceptPropagates ==
    /\ pc = "except"
    /\ pc' = "exit"
    /\ exit_code' = 1
    /\ UNCHANGED <<config, template_asset, scene_armatures, meshes, H, CX, CY, BZ, armature_obj, anat,
                   mesh_landmarks, bone_positions, mesh_idx, vertex_groups, weights,
                   method_used, steps, fitted_armature>>

\* Lines 933-937: the handler of an exception of the try block.
ExceptFallback ==
    /\ pc = "except"
    /\ DistanceSkin("distance")
    /\ unchanged_by_skinning

\* Lines 939-945: the influence cap and the report; on to the next mesh or
\* to the export.
ClampInfluences ==
    /\ pc = "clamp"
    /\ weights' = [weights EXCEPT ![mesh_idx] = clamp_vertex_influences(@, max_influences)]
    /\ steps' = Append(steps, Step("clamp", mesh_idx, method_used[mesh_idx]))
    /\ IF mesh_idx < Len(meshes)
       THEN mesh_idx' = mesh_idx + 1 /\ pc' = "prepare"
       ELSE mesh_idx' = mesh_idx /\ pc' = "export"
    /\ UNCHANGED <<meshes, vertex_groups, method_used>>
    /\ unchanged_by_skinning

\* Lines 950-972.
ExportGLB ==
    /\ pc = "export"
    /\ pc' = "done"
    /\ exit_code' = 0
    /\ steps' = Append(steps, Step("export", 0, "ok"))
    /\ UNCHANGED <<config, template_asset, scene_armatures, meshes, H, CX, CY, BZ, armature_obj, anat,
                   mesh_landmarks, bone_positions, mesh_idx, vertex_groups, weights,
                   method_used, fitted_armature>>

Next ==
    \/ ImportGLB
    \/ MeasureModel
    \/ BuildArmature
    \/ FitArmature
    \/ AdjustProportions
    \/ EnsureEndBones
    \/ CalibrateAnatomy
    \/ BuildBonePositions
    \/ PrepareMesh
    \/ SkinDistance
    \/ HeatAttempt
    \/ HeatRetry
    \/ DistanceFallback
    \/ ExceptFallback
    \/ ClampInfluences
    \/ ExportGLB

Spec == Init /\ [][Next]_vars


\* ------------------------------------------------------------------------
\* Reading the state
\* ------------------------------------------------------------------------
\* The steps taken on mesh m, in order.
MeshSteps(m) == SelectSeq(steps, LAMBDA s : s.mesh = m)

MeshOps(m) == [i \in DOMAIN MeshSteps(m) |-> MeshSteps(m)[i].op]

\* The influence cap has run on mesh m.
Clamped(m) == \E i \in DOMAIN steps : steps[i].op = "clamp" /\ steps[i].mesh = m

\* The distance weights are what mesh m holds.
DistanceWeighted(m) == method_used[m] \in {"distance", "distance_fallback"}

NonzeroCount(vw) == Cardinality({i \in DOMAIN vw.g : vw.g[i].n > 0})

\* |sum of the weights - 1| <= 1e-6, the weights being n / den.
SumsToOne(vw) ==
    Abs(SumSeq([i \in DOMAIN vw.g |-> vw.g[i].n]) - vw.den) <= vw.den \div 1000000

Raising == {"raise", "raise_partial"}

SkinningPcs == {"prepare", "skin", "retry", "fallback", "except", "clamp", "export", "done"}


\* ------------------------------------------------------------------------
\* Weights after assignment
\* ------------------------------------------------------------------------
\* C1: after the distance weights and the influence cap, the weights kept
\* for every vertex sum to 1.0 within 1e-6, whatever weight_top_n,
\* min_weight_threshold and max_influences are.
C1_KeptWeightsSumToOne ==
    \A m \in DOMAIN meshes :
        (Clamped(m) /\ DistanceWeighted(m))
            => \A v \in DOMAIN weights[m] : SumsToOne(weights[m][v])

\* C2: after the influence cap every vertex has at most max_influences
\* nonzero weights, whichever strategy produced the weights and whatever
\* positive values it returned.
C2_AtMostMaxInfluences ==
    \A m \in DOMAIN meshes :
        Clamped(m)
            => \A v \in DOMAIN weights[m] : NonzeroCount(weights[m][v]) <= max_influences

\* C3: the distance weights leave no vertex unweighted, for any
\* min_weight_threshold >= 0, weight_top_n in 1..8, masks on or off.
C3_DistanceLeavesNoVertexUnweighted ==
    \A m \in DOMAIN meshes :
        ((\E i \in DOMAIN steps : steps[i].op = "distance" /\ steps[i].mesh = m)
            /\ config.min_weight_threshold >= 0
            /\ config.weight_top_n \in 1..8)
            => \A v \in DOMAIN weights[m] : NonzeroCount(weights[m][v]) >= 1

\* Every bone-heat call on mesh m came back with empty groups.
HeatAlwaysEmpty(m) ==
    \A i \in DOMAIN steps :
        (steps[i].op = "heat" /\ steps[i].mesh = m) => steps[i].out = "empty"

\* C4: with bone heat as the method and a solver that always returns empty
\* weights, each mesh sees bone heat exactly twice, the second time after
\* the cleanup pass, then the distance weights, and every vertex ends with
\* at least one nonzero weight.
C4_EmptyHeatEndsInDistanceWeights ==
    \A m \in DOMAIN meshes :
        (skinning_method = "bone_heat" /\ Clamped(m) /\ HeatAlwaysEmpty(m))
            => /\ MeshOps(m) = <<"prepare", "heat", "cleanup", "heat", "distance", "clamp">>
               /\ \A v \in DOMAIN weights[m] : NonzeroCount(weights[m][v]) >= 1

\* The order of calls alone, as C4 states it.
EmptyHeatCallOrder ==
    \A m \in DOMAIN meshes :
        (skinning_method = "bone_heat" /\ Clamped(m) /\ HeatAlwaysEmpty(m))
            => MeshOps(m) = <<"prepare", "heat", "cleanup", "heat", "distance", "clamp">>


\* ------------------------------------------------------------------------
\* The fallbacks of the skinning loop
\* ------------------------------------------------------------------------
\* C5 (as the code has it): an exception of bone heat, on the first attempt
\* or on the retry, is followed at once by the distance weights; the cleanup
\* pass and the second attempt come only after a first attempt that
\* returned with no weighted group.
C5_RaiseGoesStraightToDistance ==
    \A m \in DOMAIN meshes : \A i \in DOMAIN MeshSteps(m) :
        /\ (MeshSteps(m)[i].op = "heat" /\ MeshSteps(m)[i].out \in Raising
                /\ i < Len(MeshSteps(m)))
               => MeshSteps(m)[i + 1] = Step("distance", m, "distance")
        /\ MeshSteps(m)[i].op = "cleanup"
               => /\ i = 3
                  /\ MeshSteps(m)[2] = Step("heat", m, "empty")
                  /\ MeshSteps(m)[4].op = "heat"
        /\ (i = 2 /\ MeshSteps(m)[2] = Step("heat", m, "empty") /\ Len(MeshSteps(m)) > 2)
               => MeshSteps(m)[3].op = "cleanup"

\* C5 as stated: an exception on the first attempt leads to the cleanup
\* pass and a second bone-heat attempt.
C5_RaiseLeadsToRetry ==
    \A m \in DOMAIN meshes :
        (Len(MeshSteps(m)) > 2 /\ MeshSteps(m)[2].op = "heat"
            /\ MeshSteps(m)[2].out \in Raising)
            => MeshSteps(m)[3].op = "cleanup"

\* A first attempt raised and the distance weights followed.
C5_RaisedThenDistance ==
    \E m \in DOMAIN meshes :
        /\ Len(MeshSteps(m)) > 2
        /\ MeshSteps(m)[2].op = "heat"
        /\ MeshSteps(m)[2].out \in Raising
        /\ MeshSteps(m)[3].op = "distance"

\* Some bone-heat call raised.
HeatRaised == \E i \in DOMAIN steps : steps[i].op = "heat" /\ steps[i].out \in Raising

\* Every exception of bone heat is in the handler or has been followed by
\* the distance weights, and the run has not been ended.
RaiseHandled ==
    /\ \A m \in DOMAIN meshes : \A i \in DOMAIN MeshSteps(m) :
           (MeshSteps(m)[i].op = "heat" /\ MeshSteps(m)[i].out \in Raising)
               => IF i = Len(MeshSteps(m))
                  THEN pc = "except" /\ mesh_idx = m
                  ELSE /\ MeshSteps(m)[i + 1] = Step("distance", m, "distance")
                       /\ method_used[m] = "distance"
    /\ HeatRaised => pc # "exit" /\ exit_code # 1

\* The run ended with the export, every mesh capped.
RunCompleted ==
    /\ exit_code = 0
    /\ steps[Len(steps)].op = "export"
    /\ \A m \in DOMAIN meshes : Clamped(m)

\* From the handler on, the loop goes its normal way: the distance weights,
\* the influence cap, then the next mesh if there is one, else the export.
LoopGoesOn ==
    /\ pc = "except" => pc' = "clamp" /\ mesh_idx' = mesh_idx
    /\ (pc = "clamp" /\ mesh_idx < Len(meshes)) => pc' = "prepare" /\ mesh_idx' = mesh_idx + 1
    /\ (pc = "clamp" /\ mesh_idx = Len(meshes)) => pc' = "export"
    /\ pc = "export" => pc' = "done"

\* C6: an exception of bone heat, on the first attempt or on the retry, is
\* caught and turned into distance weights; it does not end the run, which
\* goes on to the influence cap, the remaining meshes and the export.
C6_HeatExceptionNeverPropagates ==
    /\ []RaiseHandled
    /\ [][HeatRaised => LoopGoesOn]_vars
    /\ []((HeatRaised /\ pc = "done") => RunCompleted)

\* A run of two meshes that ended after the first attempt on the first mesh
\* and the retry on the second raised.
C6_RaisedTwiceAndExported ==
    /\ pc = "done"
    /\ Len(meshes) = 2
    /\ MeshOps(1) = <<"prepare", "heat", "distance", "clamp">>
    /\ MeshOps(2) = <<"prepare", "heat", "cleanup", "heat", "distance", "clamp">>
    /\ MeshSteps(1)[2].out \in Raising
    /\ MeshSteps(2)[4].out \in Raising


\* ------------------------------------------------------------------------
\* The height check
\* ------------------------------------------------------------------------
\* The bounding box has been measured.
Measured == meshes # <<>> /\ pc \notin {"import", "measure"}

\* C7 (as the code has it): a model is rejected, with exit code 1 and before
\* any skeleton is built, exactly when its height is below 0.01; a height of
\* exactly 0.01 is accepted, as 0.011 is.
C7_RejectedOnlyBelowThreshold ==
    Measured =>
        /\ pc = "exit" <=> H < MIN_MODEL_HEIGHT
        /\ pc = "exit" => exit_code = 1 /\ armature_obj = NoArmature /\ steps = <<>>
        /\ H \in {MIN_MODEL_HEIGHT, MIN_MODEL_HEIGHT + 1} => pc # "exit" /\ exit_code # 1

\* C7 as stated: a height of exactly 0.01 is rejected before any skeleton
\* is built, a height of 0.011 is accepted.
C7_ThresholdItselfRejected ==
    Measured =>
        /\ H = MIN_MODEL_HEIGHT => pc = "exit" /\ exit_code = 1 /\ armature_obj = NoArmature
        /\ H = MIN_MODEL_HEIGHT + 1 => pc # "exit"

\* A model of height exactly 0.01 went through to the export.
C7_ThresholdHeightExported == H = MIN_MODEL_HEIGHT /\ pc = "done" /\ exit_code = 0

\* ------------------------------------------------------------------------
\* Fitting and its end
\* ------------------------------------------------------------------------
FittingOps == {"build", "fit", "adjust", "ensure", "calibrate", "positions"}

\* The ops of the fitting steps taken, in order.
FittingSteps == SelectSeq([i \in DOMAIN steps |-> steps[i].op], LAMBDA op : op \in FittingOps)

\* The fitting steps the settings ask for, in the order of the script.
FittingPlan ==
    <<"build", "fit">>
        \o (IF config.mesh_proportional_fit THEN <<"adjust">> ELSE <<>>)
        \o <<"ensure">>
        \o (IF config.distance_calibrate_from_armature THEN <<"calibrate">> ELSE <<>>)
        \o <<"positions">>

\* Every fitting step was taken, and before the first step on a mesh.
FittingCompleted ==
    /\ FittingSteps = FittingPlan
    /\ \A i, j \in DOMAIN steps :
           (steps[i].op \in FittingOps /\ steps[j].mesh >= 1) => i < j

\* A step that changes no bone, no anatomy constant and no bone position.
SkeletonFrozen ==
    /\ armature_obj' = armature_obj
    /\ anat' = anat
    /\ bone_positions' = bone_positions

\* C8: the fit, the limb correction, the bone completion and the
\* calibration all come before the first mesh is weighted; no bone and no
\* anatomy constant changes afterwards; the bone positions the distances
\* use are the final ones for every mesh.
C8_FittingEndsBeforeWeighting ==
    /\ [](pc \in SkinningPcs
             => FittingCompleted /\ bone_positions = WorldPositions(armature_obj))
    /\ [][(pc \in SkinningPcs) => SkeletonFrozen]_vars

\* The second mesh has been weighted, on a skeleton the limb correction
\* moved and an anatomy the calibration changed.
C8_SecondMeshWeighted ==
    /\ pc = "clamp"
    /\ mesh_idx = 2
    /\ armature_obj # fitted_armature
    /\ anat # anatomy_defaults

\* C9: with landmarks of None the adjustment moves no bone: after it every
\* head and tail is where the uniform fit left it.  The all-vertices-at-one-Z
\* mesh gives landmarks of None, and the adjustment leaves any armature as
\* it is on them.
C9_NullLandmarksSkipLimbCorrection ==
    /\ (pc = "ensure" /\ config.mesh_proportional_fit /\ ~mesh_landmarks.valid)
           => armature_obj = fitted_armature
    /\ pc = "adjust"
           => /\ ~analyze_mesh_silhouette(<<BodyMesh("flat")>>).valid
              /\ adjust_armature_proportions(
                     armature_obj, analyze_mesh_silhouette(<<BodyMesh("flat")>>))
                     = armature_obj

\* The adjustment has just run on landmarks of None, on a skeleton that has
\* the bones the limb correction needs.
C9_AdjustedOnNullLandmarks ==
    /\ pc = "ensure"
    /\ config.mesh_proportional_fit
    /\ ~mesh_landmarks.valid
    /\ steps[Len(steps)] = Step("adjust", 0, "none")
    /\ HasBone(armature_obj, "mixamorig:Spine2")
    /\ HasBone(armature_obj, "mixamorig:LeftHand")
    /\ HasBone(armature_obj, "mixamorig:RightHand")

\* C10: after the build and the completion pass the skeleton has the bone
\* HeadTop_End, for the procedural rig and for any imported template.
C10_HeadTopEndPresent ==
    (pc \in {"calibrate", "positions"} \cup SkinningPcs)
        => HasBone(armature_obj, "mixamorig:HeadTop_End")


\* ------------------------------------------------------------------------
\* The completion pass
\* ------------------------------------------------------------------------
HeadTopEndCount(arm) ==
    Cardinality({i \in DOMAIN arm.bones : arm.bones[i].name = "mixamorig:HeadTop_End"})

\* The bones with the Head bone shrunk to a point.
PointHeadBones(bones) ==
    [i \in DOMAIN bones |->
        IF bones[i].name = "mixamorig:Head"
        THEN [bones[i] EXCEPT !.tail = bones[i].head]
        ELSE bones[i]]

\* The armature without HeadTop_End and with a Head bone of no length.
WithPointHead(arm) ==
    [arm EXCEPT !.bones = PointHeadBones(Without(arm.bones, {"mixamorig:HeadTop_End"}))]

\* Two passes give what one pass gives, with at most one HeadTop_End, and a
\* pass on a skeleton that has HeadTop_End changes nothing.
EnsureIdempotentOn(arm) ==
    /\ ensure_required_end_bones(ensure_required_end_bones(arm))
           = ensure_required_end_bones(arm)
    /\ HeadTopEndCount(ensure_required_end_bones(arm)) <= 1
    /\ HasBone(arm, "mixamorig:HeadTop_End") => ensure_required_end_bones(arm) = arm

\* C11: the completion pass is idempotent on the skeleton of every run, as
\* built, as fitted and as completed, and on the same skeletons with a Head
\* bone of no length.
C11_CompletionPassIdempotent ==
    (pc \in {"fit", "adjust", "ensure", "calibrate"})
        => /\ EnsureIdempotentOn(armature_obj)
           /\ EnsureIdempotentOn(WithPointHead(armature_obj))

\* The pass has just added HeadTop_End to a skeleton that lacked it.
C11_EndBoneAdded ==
    /\ pc = "calibrate"
    /\ Len(armature_obj.bones) = Len(fitted_armature.bones) + 1
    /\ armature_obj.bones[Len(armature_obj.bones)].name = "mixamorig:HeadTop_End"
    /\ HeadTopEndCount(fitted_armature) = 0


\* ------------------------------------------------------------------------
\* C12
\* ------------------------------------------------------------------------
\* The template file cannot give a skeleton: the path does not exist, the
\* import raises, or the import brings no armature.
TemplateUnusable ==
    \E file \in {TemplateFile(template_asset)} :
        ~file.exists \/ file.import_raises \/ file.armatures = <<>>

TemplateAsked == rig_source = "mixamo_template"

BuildOutcome == steps[1].out

\* C12: when the template rig is asked for and its asset is missing, its
\* import raises or it holds no skeleton, the synthetic skeleton is built
\* and the run goes on; the scene holds exactly one skeleton when the
\* uniform fit starts; of several imported skeletons the one with the most
\* bones is the one fitted.
C12_TemplateFailureRecoverable ==
    (pc = "fit") =>
        /\ scene_armatures = 1
        /\ exit_code = -1
        /\ (TemplateAsked /\ TemplateUnusable)
              => /\ BuildOutcome = "synthetic"
                 /\ armature_obj = create_synthetic_armature
        /\ (TemplateAsked /\ ~TemplateUnusable)
              => \E file \in {TemplateFile(template_asset)} :
                     /\ BuildOutcome = "template"
                     /\ \E i \in DOMAIN file.armatures : armature_obj = file.armatures[i]
                     /\ \A i \in DOMAIN file.armatures :
                            Len(armature_obj.bones) >= Len(file.armatures[i].bones)

\* The import raised on a template whose file imports but holds no
\* armature, and the fit is about to run on the synthetic skeleton.
C12_SyntheticAfterFailedImport ==
    /\ pc = "fit"
    /\ TemplateAsked
    /\ template_asset = "no_armature"
    /\ BuildOutcome = "synthetic"
    /\ Len(armature_obj.bones) > 0


\* ------------------------------------------------------------------------
\* C13
\* ------------------------------------------------------------------------
\* The selector has `value`: the configured text when it is one of `known`,
\* `fallback` when it is any other text, `when_absent` when the table has
\* no such key.
SelectorRule(key, value, known, fallback, when_absent) ==
    IF key \notin DOMAIN config THEN value = when_absent
    ELSE IF strip_lower(config[key]) \in known THEN value = strip_lower(config[key])
    ELSE value = fallback

\* The run stopped only for a scene without meshes or a model too small.
OnlyFatalInputsAbort ==
    (pc = "exit") => (meshes = <<>> \/ H < MIN_MODEL_HEIGHT)

\* The selected values are the ones the run acts on.
SelectorsActedOn ==
    /\ (pc \notin {"import", "measure", "build", "exit"} /\ rig_source = "synthetic")
            => BuildOutcome = "synthetic"
    /\ \A i \in DOMAIN steps :
           /\ (steps[i].op = "heat") => skinning_method = "bone_heat"
           /\ (steps[i].op = "distance" /\ steps[i].out = "distance" /\ i > 1
                  /\ steps[i - 1].op = "prepare") => skinning_method = "distance"

\* C13: an unrecognised selector never ends the run and becomes a fixed
\* value: skinning_method bone_heat (distance when the key is absent),
\* rig_source synthetic, distance_weight_bone_scope core; weight_top_n and
\* max_influences are within 1..8 whatever integer is configured.
C13_UnknownSelectorsFallBack ==
    /\ SelectorRule("skinning_method", skinning_method,
                    {"bone_heat", "distance"}, "bone_heat", "distance")
    /\ SelectorRule("rig_source", rig_source,
                    {"mixamo_template", "synthetic"}, "synthetic", "mixamo_template")
    /\ SelectorRule("distance_weight_bone_scope", distance_weight_bone_scope,
                    {"core", "all"}, "core", "core")
    /\ weight_top_n \in 1..8
    /\ max_influences \in 1..8
    /\ OnlyFatalInputsAbort
    /\ SelectorsActedOn

\* A run with three unknown selectors and both integers out of range was
\* exported, weighted by bone heat on the synthetic skeleton.
C13_UnknownSelectorsExported ==
    /\ pc = "done"
    /\ exit_code = 0
    /\ config = [default_config EXCEPT !.rig_source = "Rigify", !.skinning_method = "heat",
                                       !.distance_weight_bone_scope = "legacy",
                                       !.weight_top_n = 100, !.max_influences = -3]
    /\ BuildOutcome = "synthetic"
    /\ method_used[1] = "bone_heat"


\* ------------------------------------------------------------------------
\* C14
\* ------------------------------------------------------------------------
MirrorX(p) == <<-p[1], p[2], p[3]>>

\* Every vertex of the scene has its mirror image in the scene.
MirrorSymmetricMesh(ms) ==
    \E verts \in {AllVerts(ms)} :
        \A i \in DOMAIN verts : \E j \in DOMAIN verts : verts[j] = MirrorX(verts[i])

SIDE_PAIRS ==
    {<<"mixamorig:LeftShoulder", "mixamorig:RightShoulder">>,
     <<"mixamorig:LeftArm", "mixamorig:RightArm">>,
     <<"mixamorig:LeftForeArm", "mixamorig:RightForeArm">>,
     <<"mixamorig:LeftHand", "mixamorig:RightHand">>,
     <<"mixamorig:LeftHandIndex1", "mixamorig:RightHandIndex1">>,
     <<"mixamorig:LeftUpLeg", "mixamorig:RightUpLeg">>,
     <<"mixamorig:LeftLeg", "mixamorig:RightLeg">>,
     <<"mixamorig:LeftFoot", "mixamorig:RightFoot">>,
     <<"mixamorig:LeftToeBase", "mixamorig:RightToeBase">>}

\* The bone of the other side, for a bone that has a side.
Counterparts(name) ==
    {p[2] : p \in {q \in SIDE_PAIRS : q[1] = name}}
        \cup {p[1] : p \in {q \in SIDE_PAIRS : q[2] = name}}

\* In world space every side bone has its mirror image on the other side
\* and every other bone lies in the plane X = 0.
MirrorSymmetricSkeleton(arm) ==
    \A i \in DOMAIN arm.bones :
        \E b \in {arm.bones[i]} :
            IF Counterparts(b.name) = {}
            THEN WorldHead(arm, b)[1] = 0 /\ WorldTail(arm, b)[1] = 0
            ELSE \A n \in Counterparts(b.name) :
                     /\ HasBone(arm, n)
                     /\ WorldHead(arm, GetBone(arm, n)) = MirrorX(WorldHead(arm, b))
                     /\ WorldTail(arm, GetBone(arm, n)) = MirrorX(WorldTail(arm, b))

\* The limb correction has just computed its scales: landmarks were found
\* and the fitted skeleton has the bones the scales are measured on.
ScalesComputed ==
    /\ pc = "ensure"
    /\ config.mesh_proportional_fit
    /\ mesh_landmarks.valid
    /\ HasBone(fitted_armature, "mixamorig:Spine2")
    /\ HasBone(fitted_armature, "mixamorig:LeftHand")
    /\ HasBone(fitted_armature, "mixamorig:RightHand")

\* C14: for a mesh and a fitted skeleton that are both mirror-symmetric
\* about X = 0 the limb correction computes left_arm_s = right_arm_s.
C14_SymmetricArmScalesEqual ==
    (ScalesComputed /\ MirrorSymmetricMesh(meshes) /\ MirrorSymmetricSkeleton(fitted_armature))
        => \E ps \in {proportion_scales(fitted_armature, mesh_landmarks)} :
               ps.left_arm_s = ps.right_arm_s

\* A symmetric mesh and a symmetric template skeleton whose arms the limb
\* correction found too short: both scales are above 1.
C14_SymmetricScalesAboveOne ==
    /\ ScalesComputed
    /\ MirrorSymmetricMesh(meshes)
    /\ MirrorSymmetricSkeleton(fitted_armature)
    /\ BuildOutcome = "template"
    /\ proportion_scales(fitted_armature, mesh_landmarks).left_arm_s > 1000
    /\ proportion_scales(fitted_armature, mesh_landmarks).right_arm_s > 1000


\* ------------------------------------------------------------------------
\* C15
\* ------------------------------------------------------------------------
\* The raw weight the bone has in raw_weights, 0 when it is not among them.
RawWeightOfBone(raw_weights, bone) ==
    IF \E k \in DOMAIN raw_weights : raw_weights[k].b = bone
    THEN raw_weights[CHOOSE k \in DOMAIN raw_weights : raw_weights[k].b = bone].w
    ELSE 0

\* Any two candidates of the vertex with the same distance and the same
\* gate have the same raw weight.
TiesWeightedAlike(cand, raw_weights) ==
    \A i, j \in DOMAIN cand :
        (i < j /\ cand[i].d = cand[j].d /\ cand[i].gate = cand[j].gate)
            => RawWeightOfBone(raw_weights, cand[i].b) = RawWeightOfBone(raw_weights, cand[j].b)

\* The same for the ties that are both among the top candidates.
TiesInTopWeightedAlike(top, raw_weights) ==
    \A i, j \in DOMAIN top :
        (i < j /\ top[i].d = top[j].d /\ top[i].gate = top[j].gate)
            => raw_weights[i].w = raw_weights[j].w

\* The distance weights of the mesh at hand have just been computed.
DistanceJustRun ==
    /\ pc = "clamp"
    /\ steps[Len(steps)].op = "distance"
    /\ steps[Len(steps)].mesh = mesh_idx

\* C15: a vertex at the same distance from two bones with equal gates gives
\* both the same raw weight, whatever the order of the bones and whatever
\* weight_top_n is.
C15_EquidistantBonesWeightedAlike ==
    DistanceJustRun =>
        \A v \in DOMAIN meshes[mesh_idx] :
            \E co \in {meshes[mesh_idx][v].co} :
                TiesWeightedAlike(Candidates(co, ScopeBones(armature_obj)),
                                  RawWeights(co, ScopeBones(armature_obj)))

\* Two tied bones that are both kept by the weight_top_n cut have the same
\* raw weight.
TiesInsideTopWeightedAlike ==
    DistanceJustRun =>
        \A v \in DOMAIN meshes[mesh_idx] :
            \E co \in {meshes[mesh_idx][v].co} :
                TiesInTopWeightedAlike(TopCandidates(co, ScopeBones(armature_obj)),
                                       RawWeights(co, ScopeBones(armature_obj)))


\* ------------------------------------------------------------------------
\* C16
\* ------------------------------------------------------------------------
\* The limb correction has just run (or was skipped by its own checks).
LimbCorrectionRan == pc = "ensure" /\ config.mesh_proportional_fit

\* Shoulder to hand, the fingers, upper leg to toe.
LimbBones ==
    LEFT_ARM_BONES \cup RIGHT_ARM_BONES \cup LEFT_LEG_BONES \cup RIGHT_LEG_BONES
        \cup {"mixamorig:LeftHandIndex1", "mixamorig:RightHandIndex1"}

SameYZ(p, q) == p[2] = q[2] /\ p[3] = q[3]

\* Bone i of the skeleton differs from what the uniform fit left in
\* nothing but the X of its head and tail, and in nothing at all when it
\* is no limb bone.
OnlyLimbXMoved(i) ==
    \E old \in {fitted_armature.bones[i]} : \E new \in {armature_obj.bones[i]} :
        /\ new.name = old.name
        /\ new.parent = old.parent
        /\ SameYZ(WorldHead(armature_obj, new), WorldHead(fitted_armature, old))
        /\ SameYZ(WorldTail(armature_obj, new), WorldTail(fitted_armature, old))
        /\ (old.name \notin LimbBones) => new = old

\* C16: the limb correction changes only the X of head and tail of the
\* arm-chain bones (shoulder to hand, the fingers) and the leg-chain bones;
\* Y and Z of every bone, and hips, spine, neck and head bones as a whole,
\* stay as the uniform fit left them.
C16_LimbCorrectionMovesOnlyLimbX ==
    LimbCorrectionRan =>
        /\ armature_obj.loc = fitted_armature.loc
        /\ Len(armature_obj.bones) = Len(fitted_armature.bones)
        /\ \A i \in DOMAIN fitted_armature.bones : OnlyLimbXMoved(i)

\* The correction moved a finger bone and a leg bone of a template rig.
C16_FingerAndLegMoved ==
    /\ LimbCorrectionRan
    /\ HasBone(fitted_armature, "mixamorig:LeftHandIndex1")
    /\ GetBone(armature_obj, "mixamorig:LeftHandIndex1")
           # GetBone(fitted_armature, "mixamorig:LeftHandIndex1")
    /\ GetBone(armature_obj, "mixamorig:RightToeBase")
           # GetBone(fitted_armature, "mixamorig:RightToeBase")
    /\ GetBone(armature_obj, "mixamorig:Hips") = GetBone(fitted_armature, "mixamorig:Hips")

\* ------------------------------------------------------------------------
\* C17
\* ------------------------------------------------------------------------
\* The bone's world X of head and tail are the fitted ones rescaled about
\* the pivot by the scale.
RescaledBy(name, pivot_x, scale) ==
    \E old \in {GetBone(fitted_armature, name)} : \E new \in {GetBone(armature_obj, name)} :
        /\ WorldHead(armature_obj, new)[1]
               = pivot_x + TDiv((WorldHead(fitted_armature, old)[1] - pivot_x) * scale, 1000)
        /\ WorldTail(armature_obj, new)[1]
               = pivot_x + TDiv((WorldTail(fitted_armature, old)[1] - pivot_x) * scale, 1000)

WithinTwoPercent(scale) == Abs(scale - 1000) < 20

\* What the correction did with the scales it computed.
ScalesApplied(ps) ==
    IF WithinTwoPercent(ps.arm_scale) /\ WithinTwoPercent(ps.hip_scale)
    THEN armature_obj = fitted_armature
    ELSE /\ ps.arm_scale \in 300..5000
         /\ ps.hip_scale \in 300..5000
         /\ \A i \in DOMAIN fitted_armature.bones :
                \E name \in {fitted_armature.bones[i].name} :
                    /\ (name \in LimbBones \ (LEFT_LEG_BONES \cup RIGHT_LEG_BONES))
                           => RescaledBy(name, ps.spine_cx, ps.arm_scale)
                    /\ (name \in LEFT_LEG_BONES \cup RIGHT_LEG_BONES)
                           => RescaledBy(name, ps.spine_cx, ps.hip_scale)

\* C17: the limb correction modifies bones only when the arm scale or the
\* hip scale differs from 1.0 by at least 2%; with both within 2% no bone
\* changes; the scales applied lie in [0.3, 5.0].
C17_CorrectionOnlyBeyondTwoPercent ==
    ScalesComputed => ScalesApplied(proportion_scales(fitted_armature, mesh_landmarks))

\* Bones were moved with the arm scale held at the upper limit 5.0.
C17_MovedWithArmScaleAtUpperLimit ==
    /\ ScalesComputed
    /\ armature_obj # fitted_armature
    /\ proportion_scales(fitted_armature, mesh_landmarks).arm_scale = 5000


\* ------------------------------------------------------------------------
\* C18
\* ------------------------------------------------------------------------
Positive(vw) == {i \in DOMAIN vw.g : vw.g[i].n > 0}

\* The vertex weights `new` are `old` capped at max_influences: the
\* max_influences highest stay, each divided by their sum (the old
\* numerator over the kept total), and every other influence is 0.
CappedTo(old, new) ==
    /\ DOMAIN new.g = DOMAIN old.g
    /\ \A i \in DOMAIN old.g : new.g[i].b = old.g[i].b
    /\ Positive(new) \subseteq Positive(old)
    /\ Cardinality(Positive(new)) = max_influences
    /\ \A i \in Positive(new) : \A j \in Positive(old) \ Positive(new) :
           old.g[i].n >= old.g[j].n
    /\ \A i \in DOMAIN new.g \ Positive(new) : new.g[i].n = 0
    /\ SumsToOne(new)
    /\ \A i \in Positive(new) : new.g[i].n = old.g[i].n
    /\ new.den = SumSeq([i \in DOMAIN old.g |-> IF i \in Positive(new) THEN old.g[i].n ELSE 0])

\* What the cap is to do with one vertex.
CapContract(old, new) ==
    IF Cardinality(Positive(old)) > max_influences THEN CappedTo(old, new) ELSE new = old

CapStep ==
    (pc = "clamp") =>
        \A v \in DOMAIN weights[mesh_idx] :
            CapContract(weights[mesh_idx][v], weights'[mesh_idx][v])

\* C18: the influence cap keeps, on a vertex with more than max_influences
\* positive weights, exactly the max_influences highest, renormalised to
\* sum to 1, and sets every other influence of the vertex to 0; a vertex
\* with at most max_influences positive weights is left as it is.
C18_CapKeepsHighestRenormalised == [][CapStep]_vars

\* The same for the vertices whose kept weights sum to 1e-9 or more.
CapStepAboveNano ==
    (pc = "clamp") =>
        \A v \in DOMAIN weights[mesh_idx] :
            \E old \in {weights[mesh_idx][v]} :
                (\A i \in Positive(old) : ~BelowNano(old.g[i].n, old.den))
                    => CapContract(old, weights'[mesh_idx][v])

CapExactAboveNano == [][CapStepAboveNano]_vars


\* ------------------------------------------------------------------------
\* C19
\* ------------------------------------------------------------------------
\* Mesh m holds distance weights computed with the anatomy masks on.
MaskedDistanceWeights(m) ==
    /\ config.distance_use_anatomy_masks
    /\ \E i \in DOMAIN steps : steps[i].op = "distance" /\ steps[i].mesh = m

GateAt(bone, co) == anatomy_gate(bone, NormCoord(co[1], CX), NormCoord(co[3], BZ))

AllGatedOut(co, bone_names) ==
    \A i \in DOMAIN bone_names : GateAt(bone_names[i], co) <= 0

\* A bone with a weight on the vertex is not gated 0 there and is no limb
\* bone of the other side, unless every bone in scope is gated 0 there.
GatesRespected(co, vw, bone_names) ==
    \A i \in DOMAIN vw.g :
        (vw.g[i].n > 0 /\ ~AllGatedOut(co, bone_names)) =>
            /\ GateAt(vw.g[i].b, co) > 0
            /\ (NormCoord(co[1], CX) <= -10)
                   => vw.g[i].b \notin LEFT_ARM_BONES \cup LEFT_LEG_BONES
            /\ (NormCoord(co[1], CX) >= 10)
                   => vw.g[i].b \notin RIGHT_ARM_BONES \cup RIGHT_LEG_BONES

\* C19: with the anatomy masks on, the distance weights give a bone whose
\* gate is 0 for a vertex no weight on it, unless every bone in scope is
\* gated 0 there; a left arm or leg bone has no weight where
\* x_norm <= -0.01, a right arm or leg bone none where x_norm >= 0.01.
C19_GatedBonesGetNoWeight ==
    \A m \in DOMAIN meshes :
        MaskedDistanceWeights(m) =>
            \A v \in DOMAIN weights[m] :
                GatesRespected(meshes[m][v].co, weights[m][v], ScopeBones(armature_obj))

\* On some vertex a gated bone is nearer than a bone that has a weight.
MaskDecided(co, vw, bone_names) ==
    \E i \in DOMAIN bone_names : \E k \in DOMAIN vw.g :
        /\ GateAt(bone_names[i], co) <= 0
        /\ vw.g[k].n > 0
        /\ distance_to_bone(co, bone_names[i]) < distance_to_bone(co, vw.g[k].b)

\* Distance weights with eight candidates per vertex and the masks on, on
\* a mesh where the masks kept a nearer bone out.
C19_MaskKeptNearerBoneOut ==
    /\ pc = "export"
    /\ MaskedDistanceWeights(1)
    /\ weight_top_n = 8
    /\ \E v \in DOMAIN weights[1] :
           MaskDecided(meshes[1][v].co, weights[1][v], ScopeBones(armature_obj))


\* ------------------------------------------------------------------------
\* C20
\* ------------------------------------------------------------------------
\* The bands of the scene's vertices.
SceneBands(verts, z_min, height) ==
    [i \in 0..(num_bands - 1) |-> BandOf(verts, z_min, height, i)]

\* The bands with every band of fewer than 3 vertices emptied.
WithoutSmallBands(band) ==
    [i \in DOMAIN band |->
        IF band[i].count < 3
        THEN [count |-> 0, x0 |-> 0, x1 |-> 0, y0 |-> 0, y1 |-> 0]
        ELSE band[i]]

\* The landmarks of the scene when bands of fewer than 3 vertices count
\* for nothing in any scan.
LandmarksOfFullBands(verts, z_min, z_max) ==
    BandLandmarks(WithoutSmallBands(SceneBands(verts, z_min, z_max - z_min)),
                  z_min, z_max - z_min)

SceneLandmarksOfFullBands(verts) ==
    LandmarksOfFullBands(verts, MinOf({verts[k][3] : k \in DOMAIN verts}),
                         MaxOf({verts[k][3] : k \in DOMAIN verts}))

\* The analyzer has just returned landmarks.
LandmarksFound == LimbCorrectionRan /\ mesh_landmarks.valid

\* C20: bands of fewer than 3 vertices are ignored in every scan of the
\* analyzer (arm span, hip width, torso width, shoulder junction): the
\* landmarks are the ones found with those bands left out.
C20_SmallBandsIgnoredInEveryScan ==
    LandmarksFound => mesh_landmarks = SceneLandmarksOfFullBands(AllVerts(meshes))

\* The arm-span scan alone leaves those bands out.
ArmScanIgnoresSmallBands ==
    LandmarksFound =>
        \E full \in {SceneLandmarksOfFullBands(AllVerts(meshes))} :
            /\ mesh_landmarks.arm_tip_left_x = full.arm_tip_left_x
            /\ mesh_landmarks.arm_tip_right_x = full.arm_tip_right_x
            /\ mesh_landmarks.arm_band_idx = full.arm_band_idx
            /\ mesh_landmarks.arm_height_z = full.arm_height_z
            /\ mesh_landmarks.mesh_center_x = full.mesh_center_x


\* ------------------------------------------------------------------------
\* C21
\* ------------------------------------------------------------------------
\* The completion pass has just added HeadTop_End to a skeleton whose head
\* bone is a point.
StubAdded ==
    /\ pc = "calibrate"
    /\ HeadTopEndCount(fitted_armature) = 0
    /\ HasBone(armature_obj, "mixamorig:HeadTop_End")
    /\ \E head_bone \in {GetBone(armature_obj, "mixamorig:Head")} :
           head_bone.tail = head_bone.head

\* The new bone starts at the tail of the head bone and rises by `length`.
StubOfLength(length) ==
    \E head_bone \in {GetBone(armature_obj, "mixamorig:Head")} :
        \E end_bone \in {GetBone(armature_obj, "mixamorig:HeadTop_End")} :
            /\ end_bone.head = head_bone.tail
            /\ end_bone.tail = VAdd(end_bone.head, <<0, 0, length>>)

\* C21: the HeadTop_End added to a skeleton whose head bone has negligible
\* length is a vertical stub of length exactly 0.03 x H, for every accepted
\* mesh height H.
C21_StubIsThreeHundredthsOfHeight ==
    StubAdded => StubOfLength(TDiv(H * 30, 1000))

\* What the code gives: the stub is 0.03 x H or 0.03 world units, whichever
\* is more.
StubIsFlooredAtThreeHundredths ==
    StubAdded => StubOfLength(Max(TDiv(H * 30, 1000), 30))


\* ------------------------------------------------------------------------
\* C22
\* ------------------------------------------------------------------------
\* The imported scene is a vertex cloud with every vertex at the same Z.
FlatCloudImported ==
    /\ pc = "measure"
    /\ \E all_verts \in {AllVerts(meshes)} :
           /\ all_verts # <<>>
           /\ \A j, k \in DOMAIN all_verts : all_verts[j][3] = all_verts[k][3]

\* C22: on a vertex cloud of negligible height (all vertices at the same Z)
\* band slicing completes without raising in both implementations: the
\* autorig analyzer returns no landmarks and the marker script divides by
\* no zero band height.
C22_FlatCloudSlicedWithoutRaising ==
    FlatCloudImported =>
        /\ ~analyze_mesh_silhouette(meshes).valid
        /\ ~MarkerBandSlicing(AllVerts(meshes)).raised

\* The autorig half: the analyzer gives no landmarks for a flat cloud.
AnalyzerFailsSoftlyOnFlatCloud ==
    FlatCloudImported => ~analyze_mesh_silhouette(meshes).valid

\* A cloud with any height at all is sliced by the marker script, its
\* lowest vertex in the first band and its highest in the last.
MarkerSlicesCloudsWithHeight ==
    (pc = "measure" /\ ~FlatCloudImported /\ AllVerts(meshes) # <<>>) =>
        \E sliced \in {MarkerBandSlicing(AllVerts(meshes))} :
            /\ ~sliced.raised
            /\ sliced.count[0] > 0
            /\ sliced.count[markers_num_bands - 1] > 0


\* ------------------------------------------------------------------------
\* C23
\* ------------------------------------------------------------------------
\* Normalised positions below, inside and above the mesh, on both sides of
\* every threshold of the Hips gate.
GateGridX == {-2000, -500, -10, 0, 10, 500, 2000}

GateGridZ ==
    {-1000, 0, 199, 200, 201, 400, 500, 580, 600, 660, 700, 1000, 2000}
        \cup {anat.hips_h + d : d \in {0, 79, 80, 81, 500}}

HipsInScope(bone_names) ==
    \E i \in DOMAIN bone_names : bone_names[i] = "mixamorig:Hips"

\* C23: the Hips gate is never 0, at any vertex position and with any
\* calibrated constants, so when Hips is in the active scope no vertex has
\* every bone gated to 0 and the fallback to ungated distances is not taken.
C23_HipsGateNeverZero ==
    /\ \A x_norm \in GateGridX : \A z_norm \in GateGridZ :
           anatomy_gate("mixamorig:Hips", x_norm, z_norm) > 0
    /\ \A m \in DOMAIN meshes :
           (MaskedDistanceWeights(m) /\ HipsInScope(ScopeBones(armature_obj))) =>
               \A v \in DOMAIN weights[m] :
                   /\ GateAt("mixamorig:Hips", meshes[m][v].co) > 0
                   /\ ~AllGatedOut(meshes[m][v].co, ScopeBones(armature_obj))

\* Masked distance weights, with constants calibrated away from the
\* defaults, on a mesh with Hips in scope that has a vertex below and a
\* vertex above z_norm = 0.20 and a vertex where another bone is gated 0.
C23_HipsGateUsedOnBothBranches ==
    /\ anat # anatomy_defaults
    /\ HipsInScope(ScopeBones(armature_obj))
    /\ \E m \in DOMAIN meshes :
           /\ MaskedDistanceWeights(m)
           /\ \E v \in DOMAIN weights[m] : NormCoord(meshes[m][v].co[3], BZ) < 200
           /\ \E v \in DOMAIN weights[m] :
                  /\ NormCoord(meshes[m][v].co[3], BZ) >= 200
                  /\ \E i \in DOMAIN ScopeBones(armature_obj) :
                         GateAt(ScopeBones(armature_obj)[i], meshes[m][v].co) <= 0


\* ------------------------------------------------------------------------
\* C24
\* ------------------------------------------------------------------------
\* The calls of the two weighting algorithms on mesh m, in order, and the
\* report of the mesh.
SkinSteps(m) ==
    SelectSeq(steps, LAMBDA s : s.mesh = m /\ s.op \in {"heat", "distance"})

ReportsOf(m) == SelectSeq(steps, LAMBDA s : s.mesh = m /\ s.op = "clamp")

FinalWeightsBy(m) == SkinSteps(m)[Len(SkinSteps(m))]

\* The last algorithm to write the weights of m was the heat solver and it
\* returned without raising, leaving a weighted group.
HeatProducedFinalWeights(m) ==
    /\ FinalWeightsBy(m).op = "heat"
    /\ FinalWeightsBy(m).out \notin {"raise", "raise_partial"}
    /\ verify_weights(weights[m]) > 0

DistanceProducedFinalWeights(m) == FinalWeightsBy(m).op = "distance"

\* C24: the method reported for a mesh is "bone_heat" if and only if its
\* final weights were produced by the heat solver, first attempt or retry,
\* verified non-empty; wherever the distance algorithm produced the final
\* weights the reported method is "distance" or "distance_fallback".
C24_ReportedMethodNamesWeightSource ==
    \A m \in DOMAIN meshes :
        ReportsOf(m) # <<>> =>
            /\ Len(ReportsOf(m)) = 1
            /\ (ReportsOf(m)[1].out = "bone_heat") <=> HeatProducedFinalWeights(m)
            /\ DistanceProducedFinalWeights(m)
                   => ReportsOf(m)[1].out \in {"distance", "distance_fallback"}

\* A finished run of two meshes: one reported as bone_heat after a retry
\* that gave weights, the other as distance_fallback after two empty
\* attempts.
C24_RetryWeightsAndFallbackReported ==
    /\ pc = "done"
    /\ \E m \in DOMAIN meshes :
           /\ ReportsOf(m) = <<Step("clamp", m, "bone_heat")>>
           /\ Len(SkinSteps(m)) = 2
    /\ \E m \in DOMAIN meshes :
           /\ ReportsOf(m) = <<Step("clamp", m, "distance_fallback")>>
           /\ Len(SkinSteps(m)) = 3


\* ------------------------------------------------------------------------
\* C25
\* ------------------------------------------------------------------------
\* The distance algorithm has just run on the current mesh after a heat
\* attempt.
DistanceRanAsFallback ==
    /\ pc = "clamp"
    /\ DistanceProducedFinalWeights(mesh_idx)
    /\ SkinSteps(mesh_idx)[1].op = "heat"

\* The weight table of the current mesh is the one the distance algorithm
\* writes on a mesh without groups: one group per bone, and on every
\* vertex the distance weights alone.
OnlyDistanceWeights(r) ==
    /\ vertex_groups[mesh_idx] = r.groups
    /\ weights[mesh_idx] = r.weights

\* C25: whenever the distance algorithm runs as a fallback, after an empty
\* heat result or after a heat exception that left partial groups, the
\* groups left by the heat attempts are cleared first, so the weight table
\* holds only what the distance algorithm wrote.
C25_FallbackWeightsAreDistanceOnly ==
    DistanceRanAsFallback =>
        OnlyDistanceWeights(skin_mesh_with_distance_weights(meshes[mesh_idx]))

\* The distance weights follow a heat attempt that raised after writing
\* groups and weights.
C25_FallbackAfterPartialHeat ==
    /\ DistanceRanAsFallback
    /\ SkinSteps(mesh_idx)[1].out = "raise_partial"
    /\ verify_weights(weights[mesh_idx]) > 0

=============================================================================
